---- MODULE Spec2Model ----
(***************************************************************************)
(* Event ingestion, digest generation and digest delivery of               *)
(* hiramoto/event-summary-n8n.                                             *)
(*                                                                         *)
(*   - Event API   : src/src/server.js (Fastify route, 323-616) and        *)
(*                   src/src/app.js (plain http handler + validator)       *)
(*   - Digest worker: src/scripts/digest-worker.ts                         *)
(*                                                                         *)
(* Representation.  A nullable value is a sequence of length <= 1: <<>> is *)
(* null and <<v>> is the value v.  A timestamp string is a record          *)
(* [form, inst, zone]: inst is the instant in units of 30 seconds, zone    *)
(* the offset it is written with, form says how it is written ("iso":      *)
(* ISO-8601 with offset, "rfc": another form Date can parse, "junk": not a *)
(* date).  A JSON object is a record; a JSON array is the record           *)
(* [array_items |-> ...].  Non-ASCII literals of the source are written in *)
(* ASCII (see ArrivedSuffix, NoEventsMessage, the count labels).           *)
(***************************************************************************)
EXTENDS Integers, Sequences, FiniteSets, TLC

VARIABLES
    impl,        \* which implementation of the Event API is deployed
    events,      \* table events: event_id -> row (prisma.event)
    digests,     \* table digests: digest_id -> row (prisma.digest)
    eventsById,  \* InMemoryEventRepository.eventsById (plain http handler)
    now,         \* the server's clock, new Date()
    uuidCount,   \* number of ids crypto.randomUUID() has handed out
    resp,        \* the response written by the API request of this step
    pc,          \* per worker: position in main()
    batch,       \* per worker: const { events } of main()
    digest,      \* per worker: const digest of main() (nullable)
    unsent,      \* per worker: unsentDigests still to be retried
    markReq,     \* per worker: event_ids sent to POST /events/process (nullable)
    posted,      \* per worker: the requests POSTed to the sink in this tick
    acked,       \* digest ids the sink has answered 2xx to
    aggInput,    \* aggregateLocationEvents: the argument events
    aggRest,     \* aggregateLocationEvents: locationEvents still to be looped over
    aggAcc,      \* aggregateLocationEvents: segments, eventIds, currentSegment
    aggDigest    \* what generateDigest(aggInput) returned (nullable)

vars == <<impl, events, digests, eventsById, now, uuidCount, resp,
          pc, batch, digest, unsent, markReq, posted, acked,
          aggInput, aggRest, aggAcc, aggDigest>>

\* what no request and no worker step changes
otherVars == <<impl, aggInput, aggRest, aggAcc, aggDigest>>

workerVars == <<pc, batch, digest, unsent, markReq, posted>>

\* ------------------------------------------------------------------ bounds

\* Number of distinct event ids the clients use.
MaxEvents == 2
\* Number of digest ids crypto.randomUUID() can hand out.
MaxDigests == 3
\* The clock takes the values 0..MaxClock.
MaxClock == 1
\* aggregateLocationEvents is applied to every batch of at most MaxBatch events
MaxBatch == 3
\* with instants 0..MaxTs
MaxTs == 2

Workers == {"w1", "w2"}

\* ------------------------------------------------------------ small helpers

None == <<>>
Some(v) == <<v>>

Min2(a, b) == IF a <= b THEN a ELSE b

SetMin(S) == CHOOSE x \in S : \A y \in S : x <= y
SetMax(S) == CHOOSE x \in S : \A y \in S : x >= y

Range(s) == {s[i] : i \in 1..Len(s)}

\* s.slice(0, n)
Take(s, n) == SubSeq(s, 1, Min2(n, Len(s)))

\* Every arrangement of the elements of S in a sequence.
Orderings(S) ==
    {s \in [1..Cardinality(S) -> S] : \A i, j \in 1..Cardinality(S) : i # j => s[i] # s[j]}

RECURSIVE SelectSeqBy(_, _)
\* Array.prototype.filter with the predicate given as the set of kept values
SelectSeqBy(s, keep) ==
    IF s = <<>> THEN <<>>
    ELSE IF Head(s) \in keep THEN <<Head(s)>> \o SelectSeqBy(Tail(s), keep)
    ELSE SelectSeqBy(Tail(s), keep)

RECURSIVE JoinStr(_, _)
\* Array.prototype.join
JoinStr(parts, sep) ==
    IF parts = <<>> THEN ""
    ELSE IF Len(parts) = 1 THEN parts[1]
    ELSE parts[1] \o sep \o JoinStr(Tail(parts), sep)

\* ---------------------------------------------------------------- identifiers

EventIdOf(i) == "ev" \o ToString(i)
DigestIdOf(i) == "dg" \o ToString(i)

EventIds == {EventIdOf(i) : i \in 1..MaxEvents}
DigestIds == {DigestIdOf(i) : i \in 1..MaxDigests}

\* z.string().uuid() / UUID_V4_REGEX: the strings of UUID shape
IsUuid(s) == s \in EventIds \cup DigestIds

\* ---------------------------------------------------------------- timestamps

TsString(form, inst, zone) == [form |-> form, inst |-> inst, zone |-> zone]

\* new Date(str).getTime(), for a string Date can parse
GetTime(ts) == ts.inst

\* Date.prototype.toISOString(): always UTC
ToISOString(inst) == TsString("iso", inst, "Z")

Pad2(n) == IF n < 10 THEN "0" \o ToString(n) ELSE ToString(n)

\* formatTime: HH:MM of the instant (the process runs in UTC)
FormatTime(ts) ==
    LET minute == GetTime(ts) \div 2
    IN  Pad2((minute \div 60) % 24) \o ":" \o Pad2(minute % 60)

\* Math.round((exitTime - enterTime) / 60000): halves round up
DurationMin(enterTs, exitTs) == (GetTime(exitTs) - GetTime(enterTs) + 1) \div 2

\* ------------------------------------------------------------ request bodies

Has(obj, field) == field \in DOMAIN obj

\* typeof v === "object" && v !== null && !Array.isArray(v)
IsObject(v) == ~Has(v, "array_items")

Without(obj, field) == [k \in DOMAIN obj \ {field} |-> obj[k]]

\* sampleEvent of the tests, one per event id: a location event
LocationBody(i) ==
    [event_id  |-> EventIdOf(i),
     type      |-> "location",
     ts        |-> TsString("iso", 3 * (i - 1), "+09:00"),
     payload   |-> [event |-> IF i % 2 = 1 THEN "enter" ELSE "exit", place_id |-> "home"],
     device_id |-> "android-main",
     meta      |-> [source |-> "tasker"]]

\* a second body with the same event id: another type, payload and ts
OtherBody(i) ==
    LET kind == (i - 1) % 3
    IN  [event_id |-> EventIdOf(i),
         type     |-> IF kind = 0 THEN "email" ELSE IF kind = 1 THEN "vital" ELSE "todo",
         ts       |-> TsString("iso", 3 * (i - 1) + 1, "Z"),
         payload  |-> IF kind = 0 THEN [subject |-> "hello", from |-> "a@example.com"]
                      ELSE IF kind = 1 THEN [sub_type |-> "wake"]
                      ELSE [task_id |-> "t1", old_status |-> "open", new_status |-> "done"]]

ValidBodies == {LocationBody(i) : i \in 1..MaxEvents} \cup {OtherBody(i) : i \in 1..MaxEvents}

\* bodies that one of the two validators rejects
InvalidBodies ==
    LET b == LocationBody(1)
    IN  { [array_items |-> "[]"],
          [b EXCEPT !.event_id = "bad-uuid"],
          Without(b, "event_id"),
          [b EXCEPT !.type = "other"],
          [b EXCEPT !.type = ""],
          Without(b, "ts"),
          [b EXCEPT !.ts = TsString("junk", 0, "")],
          [b EXCEPT !.ts = TsString("rfc", 0, "GMT")],
          [b EXCEPT !.payload = [array_items |-> "[]"]],
          [b EXCEPT !.payload = [event |-> "jump", place_id |-> "home"]],
          [b EXCEPT !.payload = [event |-> "enter", place_id |-> ""]],
          [b EXCEPT !.payload = [event |-> "enter", place_id |-> "home", lat |-> 91]],
          [b EXCEPT !.type = "vital", !.payload = [sub_type |-> "nap"]],
          [b EXCEPT !.type = "email", !.payload = [subject |-> "hello"]],
          [b EXCEPT !.type = "todo", !.payload = [task_id |-> "t1"]],
          [b EXCEPT !.device_id = ""],
          [b EXCEPT !.meta = [array_items |-> "[]"]],
          [b EXCEPT !.event_id = "bad-uuid", !.payload = [event |-> "jump", place_id |-> "home"]] }

\* the events that arrive while the worker runs: one body per event id
Arrivals == {IF i % 2 = 1 THEN LocationBody(i) ELSE OtherBody(i) : i \in 1..MaxEvents}

Bodies == ValidBodies \cup InvalidBodies

\* bodies of POST /digests: two per digest id, with different payload and message
DigestBody(i, v) ==
    [digest_id |-> DigestIdOf(i),
     payload   |-> [type |-> "location", event_ids |-> <<EventIdOf(v)>>],
     message   |-> "[LocationDigest] " \o ToString(v)]

ValidDigestBodies == {DigestBody(i, v) : i \in 1..MaxDigests, v \in 1..2}

\* bodies that digestSchema rejects
InvalidDigestBodies ==
    LET b == DigestBody(1, 1)
    IN  { [array_items |-> "[]"],
          [b EXCEPT !.digest_id = "bad-uuid"],
          Without(b, "payload"),
          [b EXCEPT !.payload = [array_items |-> "[]"]],
          [b EXCEPT !.message = ""] }

DigestBodies == ValidDigestBodies \cup InvalidDigestBodies

\* bodies of POST /digests/:digestId/sent: {} or { sent_at }
SentBodies ==
    {[none |-> TRUE]} \cup {[sent_at |-> ToISOString(t)] : t \in 0..MaxClock}
    \cup {[sent_at |-> TsString("junk", 0, "")]}

\* --------------------------------------------------------------- validation

supportedTypes == {"location", "email", "todo", "vital"}

\* z.string().min(1)
NonEmptyString(obj, field) ==
    IF ~Has(obj, field) THEN <<field \o ": Required">>
    ELSE IF obj[field] = "" THEN <<field \o ": String must contain at least 1 character(s)">>
    ELSE <<>>

\* z.enum(values)
EnumField(obj, field, values) ==
    IF ~Has(obj, field) THEN <<field \o ": Required">>
    ELSE IF obj[field] \notin values THEN <<field \o ": Invalid enum value">>
    ELSE <<>>

\* z.number().min(lo).max(hi).optional()
OptionalRange(obj, field, lo, hi) ==
    IF Has(obj, field) /\ obj[field] < lo THEN <<field \o ": Number too small">>
    ELSE IF Has(obj, field) /\ obj[field] > hi THEN <<field \o ": Number too big">>
    ELSE <<>>

locationPayloadSchema(p) ==
    EnumField(p, "event", {"enter", "exit", "dwell"})
    \o NonEmptyString(p, "place_id")
    \o OptionalRange(p, "lat", -90, 90)
    \o OptionalRange(p, "lng", -180, 180)
    \o (IF Has(p, "accuracy_m") /\ p.accuracy_m < 0
        THEN <<"accuracy_m: Number too small">> ELSE <<>>)

emailPayloadSchema(p) ==
    NonEmptyString(p, "subject")
    \o NonEmptyString(p, "from")
    \o (IF Has(p, "labels") /\ IsObject(p.labels) THEN <<"labels: Expected array">> ELSE <<>>)

todoPayloadSchema(p) ==
    NonEmptyString(p, "task_id")
    \o NonEmptyString(p, "old_status")
    \o NonEmptyString(p, "new_status")

vitalPayloadSchema(p) == EnumField(p, "sub_type", {"wake", "sleep", "exercise", "watch_off"})

\* payloadSchemas[type].safeParse(payload): the issues; <<>> on success
payloadSchemas(type, p) ==
    IF type = "location" THEN locationPayloadSchema(p)
    ELSE IF type = "email" THEN emailPayloadSchema(p)
    ELSE IF type = "todo" THEN todoPayloadSchema(p)
    ELSE IF type = "vital" THEN vitalPayloadSchema(p)
    ELSE <<>>

\* eventSchema with event_id: z.string() in place of z.string().uuid()
eventSchemaAnyId(body) ==
    IF ~IsObject(body) THEN <<"(root): Expected object">>
    ELSE (IF ~Has(body, "event_id") THEN <<"event_id: Required">> ELSE <<>>)
      \o EnumField(body, "type", supportedTypes)
      \o (IF ~Has(body, "ts") THEN <<"ts: Required">>
          ELSE IF body.ts.form # "iso" THEN <<"ts: Invalid datetime">> ELSE <<>>)
      \o (IF ~Has(body, "payload") THEN <<"payload: Required">>
          ELSE IF ~IsObject(body.payload) THEN <<"payload: Expected object">> ELSE <<>>)
      \o (IF Has(body, "device_id") /\ body.device_id = ""
          THEN <<"device_id: String must contain at least 1 character(s)">> ELSE <<>>)
      \o (IF Has(body, "meta") /\ ~IsObject(body.meta)
          THEN <<"meta: Expected object">> ELSE <<>>)

\* eventSchema.safeParse(body): the issues; <<>> on success
eventSchema(body) ==
    IF ~IsObject(body) THEN <<"(root): Expected object">>
    ELSE (IF ~Has(body, "event_id") THEN <<"event_id: Required">>
          ELSE IF ~IsUuid(body.event_id) THEN <<"event_id: Invalid uuid">> ELSE <<>>)
      \o EnumField(body, "type", supportedTypes)
      \o (IF ~Has(body, "ts") THEN <<"ts: Required">>
          ELSE IF body.ts.form # "iso" THEN <<"ts: Invalid datetime">> ELSE <<>>)
      \o (IF ~Has(body, "payload") THEN <<"payload: Required">>
          ELSE IF ~IsObject(body.payload) THEN <<"payload: Expected object">> ELSE <<>>)
      \o (IF Has(body, "device_id") /\ body.device_id = ""
          THEN <<"device_id: String must contain at least 1 character(s)">> ELSE <<>>)
      \o (IF Has(body, "meta") /\ ~IsObject(body.meta)
          THEN <<"meta: Expected object">> ELSE <<>>)

\* eventSchema of routes/events.ts: any non-empty type, no payload schema
eventSchemaV1(body) ==
    IF ~IsObject(body) THEN <<"(root): Expected object">>
    ELSE (IF ~Has(body, "event_id") THEN <<"event_id: Required">>
          ELSE IF ~IsUuid(body.event_id) THEN <<"event_id: Invalid uuid">> ELSE <<>>)
      \o NonEmptyString(body, "type")
      \o (IF ~Has(body, "ts") THEN <<"ts: Required">>
          ELSE IF body.ts.form # "iso" THEN <<"ts: Invalid datetime">> ELSE <<>>)
      \o (IF ~Has(body, "payload") THEN <<"payload: Required">>
          ELSE IF ~IsObject(body.payload) THEN <<"payload: Expected object">> ELSE <<>>)
      \o (IF Has(body, "device_id") /\ body.device_id = ""
          THEN <<"device_id: String must contain at least 1 character(s)">> ELSE <<>>)
      \o (IF Has(body, "meta") /\ ~IsObject(body.meta)
          THEN <<"meta: Expected object">> ELSE <<>>)

\* isIsoDateString
isIsoDateString(body) == Has(body, "ts") /\ body.ts.form \in {"iso", "rfc"}

\* validateEventEnvelope(body): the error list of the plain http handler
validateEventEnvelope(body) ==
    IF ~IsObject(body) THEN <<"Request body must be a JSON object.">>
    ELSE (IF ~(Has(body, "event_id") /\ IsUuid(body.event_id))
          THEN <<"event_id must be a valid UUID.">> ELSE <<>>)
      \o (IF ~Has(body, "type") \/ body.type \in {"", " "}
          THEN <<"type must be a non-empty string.">> ELSE <<>>)
      \o (IF ~isIsoDateString(body)
          THEN <<"ts must be a valid ISO-8601 timestamp string.">> ELSE <<>>)
      \o (IF ~Has(body, "payload") \/ ~IsObject(body.payload)
          THEN <<"payload must be a JSON object.">> ELSE <<>>)
      \o (IF Has(body, "meta") /\ ~IsObject(body.meta)
          THEN <<"meta must be an object when provided.">> ELSE <<>>)

\* ------------------------------------------------- digest-worker.ts: core logic

RECURSIVE InsertByTs(_, _)
\* insert e after the elements whose time is <= its own (a stable sort's step)
InsertByTs(sorted, e) ==
    IF sorted = <<>> THEN <<e>>
    ELSE IF GetTime(Head(sorted).ts) <= GetTime(e.ts)
         THEN <<Head(sorted)>> \o InsertByTs(Tail(sorted), e)
         ELSE <<e>> \o sorted

\* SortByTs with a comparator that returns 0 for every pair: a stable sort
\* then keeps the order it is given
SortByTsConstantComparator(evs) == evs

RECURSIVE SortByTs(_)
\* .sort((a, b) => new Date(a.ts).getTime() - new Date(b.ts).getTime()), stable
SortByTs(evs) ==
    IF evs = <<>> THEN <<>>
    ELSE InsertByTs(SortByTs(SubSeq(evs, 1, Len(evs) - 1)), evs[Len(evs)])

\* LocationEvents without the sort: the location events in the order of the batch
LocationEventsUnsorted(evs) ==
    SelectSeqBy(evs, {e \in Range(evs) : e.type = "location"})

\* LocationEvents without the filter: every event of the batch, sorted
LocationEventsAllTypes(evs) ==
    SortByTs(evs)

\* events.filter((e) => e.type === "location").sort(...)
LocationEvents(evs) ==
    SortByTs(SelectSeqBy(evs, {e \in Range(evs) : e.type = "location"}))

\* the caller's array after aggregateLocationEvents(events): filter returns a
\* new array and sort works on that one, in place
EventsAfterAggregate(evs) == evs

OpenSegment(place, ts) ==
    [place_id |-> place, enter_at |-> ts, exit_at |-> None, duration_min |-> None]

\* currentSegment.exit_at = ts; currentSegment.duration_min = Math.round(...)
CloseSegment(seg, ts) ==
    [seg EXCEPT !.exit_at = Some(ts), !.duration_min = Some(DurationMin(seg.enter_at, ts))]

\* The accumulator of the loop: segments, eventIds, and cur, the index in segments
\* of the object currentSegment refers to (0: currentSegment is null).
AggInit == [segments |-> <<>>, eventIds |-> <<>>, cur |-> 0]

\* AggStep with a dwell absorbed by the open segment whatever its place
AggStepDwellAbsorbedAnywhere(acc, event) ==
    LET p    == event.payload
        kind == IF Has(p, "event") THEN p.event ELSE ""
        ids  == Append(acc.eventIds, event.event_id)
        segs == acc.segments
        cur  == acc.cur
        n    == Len(segs)
    IN  IF kind = "enter" THEN
            LET closed == IF cur # 0 /\ segs[cur].exit_at = None
                          THEN [segs EXCEPT ![cur] = CloseSegment(segs[cur], event.ts)]
                          ELSE segs
            IN  [segments |-> Append(closed, OpenSegment(p.place_id, event.ts)),
                 eventIds |-> ids, cur |-> n + 1]
        ELSE IF kind = "dwell" THEN
            IF cur = 0
            THEN [segments |-> Append(segs, OpenSegment(p.place_id, event.ts)),
                  eventIds |-> ids, cur |-> n + 1]
            ELSE [segments |-> segs, eventIds |-> ids, cur |-> cur]
        ELSE IF kind = "exit" THEN
            IF cur # 0 /\ segs[cur].place_id = p.place_id
            THEN [segments |-> [segs EXCEPT ![cur] = CloseSegment(segs[cur], event.ts)],
                  eventIds |-> ids, cur |-> 0]
            ELSE [segments |-> Append(segs, [place_id |-> p.place_id, enter_at |-> event.ts,
                                             exit_at |-> Some(event.ts),
                                             duration_min |-> Some(0)]),
                  eventIds |-> ids, cur |-> cur]
        ELSE [segments |-> segs, eventIds |-> ids, cur |-> cur]

\* AggStep with a matching exit that closes the segment and keeps it current
AggStepExitKeepsOpen(acc, event) ==
    LET p    == event.payload
        kind == IF Has(p, "event") THEN p.event ELSE ""
        ids  == Append(acc.eventIds, event.event_id)
        segs == acc.segments
        cur  == acc.cur
        n    == Len(segs)
    IN  IF kind = "enter" THEN
            LET closed == IF cur # 0 /\ segs[cur].exit_at = None
                          THEN [segs EXCEPT ![cur] = CloseSegment(segs[cur], event.ts)]
                          ELSE segs
            IN  [segments |-> Append(closed, OpenSegment(p.place_id, event.ts)),
                 eventIds |-> ids, cur |-> n + 1]
        ELSE IF kind = "dwell" THEN
            IF cur = 0 \/ segs[cur].place_id # p.place_id
            THEN [segments |-> Append(segs, OpenSegment(p.place_id, event.ts)),
                  eventIds |-> ids, cur |-> n + 1]
            ELSE [segments |-> segs, eventIds |-> ids, cur |-> cur]
        ELSE IF kind = "exit" THEN
            IF cur # 0 /\ segs[cur].place_id = p.place_id
            THEN [segments |-> [segs EXCEPT ![cur] = CloseSegment(segs[cur], event.ts)],
                  eventIds |-> ids, cur |-> cur]
            ELSE [segments |-> Append(segs, [place_id |-> p.place_id, enter_at |-> event.ts,
                                             exit_at |-> Some(event.ts),
                                             duration_min |-> Some(0)]),
                  eventIds |-> ids, cur |-> cur]
        ELSE [segments |-> segs, eventIds |-> ids, cur |-> cur]

\* AggStep with an exit that closes the open segment whatever its place
AggStepExitClosesAny(acc, event) ==
    LET p    == event.payload
        kind == IF Has(p, "event") THEN p.event ELSE ""
        ids  == Append(acc.eventIds, event.event_id)
        segs == acc.segments
        cur  == acc.cur
        n    == Len(segs)
    IN  IF kind = "enter" THEN
            LET closed == IF cur # 0 /\ segs[cur].exit_at = None
                          THEN [segs EXCEPT ![cur] = CloseSegment(segs[cur], event.ts)]
                          ELSE segs
            IN  [segments |-> Append(closed, OpenSegment(p.place_id, event.ts)),
                 eventIds |-> ids, cur |-> n + 1]
        ELSE IF kind = "dwell" THEN
            IF cur = 0 \/ segs[cur].place_id # p.place_id
            THEN [segments |-> Append(segs, OpenSegment(p.place_id, event.ts)),
                  eventIds |-> ids, cur |-> n + 1]
            ELSE [segments |-> segs, eventIds |-> ids, cur |-> cur]
        ELSE IF kind = "exit" THEN
            IF cur # 0
            THEN [segments |-> [segs EXCEPT ![cur] = CloseSegment(segs[cur], event.ts)],
                  eventIds |-> ids, cur |-> 0]
            ELSE [segments |-> Append(segs, [place_id |-> p.place_id, enter_at |-> event.ts,
                                             exit_at |-> Some(event.ts),
                                             duration_min |-> Some(0)]),
                  eventIds |-> ids, cur |-> cur]
        ELSE [segments |-> segs, eventIds |-> ids, cur |-> cur]

\* AggStep with an enter at the place of the open segment absorbed, as a dwell is
AggStepEnterAbsorbed(acc, event) ==
    LET p    == event.payload
        kind == IF Has(p, "event") THEN p.event ELSE ""
        ids  == Append(acc.eventIds, event.event_id)
        segs == acc.segments
        cur  == acc.cur
        n    == Len(segs)
    IN  IF kind = "enter" /\ cur # 0 /\ segs[cur].place_id = p.place_id THEN
            [segments |-> segs, eventIds |-> ids, cur |-> cur]
        ELSE IF kind = "enter" THEN
            LET closed == IF cur # 0 /\ segs[cur].exit_at = None
                          THEN [segs EXCEPT ![cur] = CloseSegment(segs[cur], event.ts)]
                          ELSE segs
            IN  [segments |-> Append(closed, OpenSegment(p.place_id, event.ts)),
                 eventIds |-> ids, cur |-> n + 1]
        ELSE IF kind = "dwell" THEN
            IF cur = 0 \/ segs[cur].place_id # p.place_id
            THEN [segments |-> Append(segs, OpenSegment(p.place_id, event.ts)),
                  eventIds |-> ids, cur |-> n + 1]
            ELSE [segments |-> segs, eventIds |-> ids, cur |-> cur]
        ELSE IF kind = "exit" THEN
            IF cur # 0 /\ segs[cur].place_id = p.place_id
            THEN [segments |-> [segs EXCEPT ![cur] = CloseSegment(segs[cur], event.ts)],
                  eventIds |-> ids, cur |-> 0]
            ELSE [segments |-> Append(segs, [place_id |-> p.place_id, enter_at |-> event.ts,
                                             exit_at |-> Some(event.ts),
                                             duration_min |-> Some(0)]),
                  eventIds |-> ids, cur |-> cur]
        ELSE [segments |-> segs, eventIds |-> ids, cur |-> cur]

\* one iteration of: for (const event of locationEvents) { ... switch (payload.event) }
AggStep(acc, event) ==
    LET p    == event.payload
        kind == IF Has(p, "event") THEN p.event ELSE ""
        ids  == Append(acc.eventIds, event.event_id)
        segs == acc.segments
        cur  == acc.cur
        n    == Len(segs)
    IN  IF kind = "enter" THEN
            LET closed == IF cur # 0 /\ segs[cur].exit_at = None
                          THEN [segs EXCEPT ![cur] = CloseSegment(segs[cur], event.ts)]
                          ELSE segs
            IN  [segments |-> Append(closed, OpenSegment(p.place_id, event.ts)),
                 eventIds |-> ids, cur |-> n + 1]
        ELSE IF kind = "dwell" THEN
            IF cur = 0 \/ segs[cur].place_id # p.place_id
            THEN [segments |-> Append(segs, OpenSegment(p.place_id, event.ts)),
                  eventIds |-> ids, cur |-> n + 1]
            ELSE [segments |-> segs, eventIds |-> ids, cur |-> cur]
        ELSE IF kind = "exit" THEN
            IF cur # 0 /\ segs[cur].place_id = p.place_id
            THEN [segments |-> [segs EXCEPT ![cur] = CloseSegment(segs[cur], event.ts)],
                  eventIds |-> ids, cur |-> 0]
            ELSE [segments |-> Append(segs, [place_id |-> p.place_id, enter_at |-> event.ts,
                                             exit_at |-> Some(event.ts),
                                             duration_min |-> Some(0)]),
                  eventIds |-> ids, cur |-> cur]
        ELSE [segments |-> segs, eventIds |-> ids, cur |-> cur]

RECURSIVE AggFold(_, _)
AggFold(acc, evs) ==
    IF evs = <<>> THEN acc ELSE AggFold(AggStep(acc, Head(evs)), Tail(evs))

\* aggregateLocationEvents closing the segment left open at the time of the
\* last location event
aggregateLocationEventsClosingLast(evs) ==
    LET loc == LocationEvents(evs)
        r   == AggFold(AggInit, loc)
    IN  [segments |-> IF r.cur # 0
                      THEN [r.segments EXCEPT ![r.cur] = CloseSegment(@, loc[Len(loc)].ts)]
                      ELSE r.segments,
         eventIds |-> r.eventIds]

\* aggregateLocationEvents(events): { segments, eventIds }
aggregateLocationEvents(evs) ==
    LET r == AggFold(AggInit, LocationEvents(evs))
    IN  [segments |-> r.segments, eventIds |-> r.eventIds]

\* the source's literals, in ASCII
NoEventsMessage == "[LocationDigest] (no events)"
ArrivedSuffix == "(arrived)"
ArrowSeparator == " -> "
EmailLabel == "mail"
TodoLabel == "task-change"
VitalLabel == "vital"
CountSuffix == "(items)"

\* RenderSegment without the test seg.exit_at !== seg.enter_at
RenderSegmentAnyClosed(seg) ==
    IF seg.exit_at # None
    THEN FormatTime(seg.enter_at) \o "-" \o FormatTime(seg.exit_at[1]) \o " " \o seg.place_id
    ELSE FormatTime(seg.enter_at) \o " " \o seg.place_id \o ArrivedSuffix

\* the callback of segments.map in buildDigestMessage
RenderSegment(seg) ==
    IF seg.exit_at # None /\ seg.exit_at[1] # seg.enter_at
    THEN FormatTime(seg.enter_at) \o "-" \o FormatTime(seg.exit_at[1]) \o " " \o seg.place_id
    ELSE FormatTime(seg.enter_at) \o " " \o seg.place_id \o ArrivedSuffix

\* buildDigestMessage(segments)
buildDigestMessage(segments) ==
    IF Len(segments) = 0 THEN NoEventsMessage
    ELSE "[LocationDigest] "
         \o JoinStr([i \in 1..Len(segments) |-> RenderSegment(segments[i])], ArrowSeparator)

CountOfType(evs, type) == Cardinality({i \in 1..Len(evs) : evs[i].type = type})

\* NonLocationSummaryParts with the vital fragment pushed first
NonLocationSummaryPartsVitalFirst(evs) ==
    LET part(label, count) ==
            IF count > 0 THEN <<label \o ToString(count) \o CountSuffix>> ELSE <<>>
    IN  part(VitalLabel, CountOfType(evs, "vital"))
        \o part(EmailLabel, CountOfType(evs, "email"))
        \o part(TodoLabel, CountOfType(evs, "todo"))

\* nonLocationSummaryParts of generateDigest
NonLocationSummaryParts(evs) ==
    LET part(label, count) ==
            IF count > 0 THEN <<label \o ToString(count) \o CountSuffix>> ELSE <<>>
    IN  part(EmailLabel, CountOfType(evs, "email"))
        \o part(TodoLabel, CountOfType(evs, "todo"))
        \o part(VitalLabel, CountOfType(evs, "vital"))

\* generateDigest with the period taken over the location events, if there are any
generateDigestLocationPeriod(evs, uuid) ==
    IF Len(evs) = 0 THEN None
    ELSE LET allEventIds     == [i \in 1..Len(evs) |-> evs[i].event_id]
             segments        == aggregateLocationEvents(evs).segments
             parts           == NonLocationSummaryParts(evs)
             locationMessage == buildDigestMessage(segments)
             message         == IF Len(parts) > 0
                                THEN locationMessage \o " | " \o JoinStr(parts, ", ")
                                ELSE locationMessage
             timestamps      == IF \E i \in 1..Len(evs) : evs[i].type = "location"
                                THEN {GetTime(evs[i].ts) :
                                         i \in {j \in 1..Len(evs) : evs[j].type = "location"}}
                                ELSE {GetTime(evs[i].ts) : i \in 1..Len(evs)}
         IN  Some([digest_id |-> uuid,
                   message   |-> message,
                   payload   |-> [type         |-> "location",
                                  segments     |-> segments,
                                  period_start |-> ToISOString(SetMin(timestamps)),
                                  period_end   |-> ToISOString(SetMax(timestamps)),
                                  event_ids    |-> allEventIds]])

\* generateDigest with event_ids taken from the location events alone
generateDigestLocationIds(evs, uuid) ==
    IF Len(evs) = 0 THEN None
    ELSE LET allEventIds     == aggregateLocationEvents(evs).eventIds
             segments        == aggregateLocationEvents(evs).segments
             parts           == NonLocationSummaryParts(evs)
             locationMessage == buildDigestMessage(segments)
             message         == IF Len(parts) > 0
                                THEN locationMessage \o " | " \o JoinStr(parts, ", ")
                                ELSE locationMessage
             timestamps      == {GetTime(evs[i].ts) : i \in 1..Len(evs)}
         IN  Some([digest_id |-> uuid,
                   message   |-> message,
                   payload   |-> [type         |-> "location",
                                  segments     |-> segments,
                                  period_start |-> ToISOString(SetMin(timestamps)),
                                  period_end   |-> ToISOString(SetMax(timestamps)),
                                  event_ids    |-> allEventIds]])

\* generateDigest giving up when the batch has no location event
generateDigestLocationOnly(evs, uuid) ==
    IF Len(LocationEvents(evs)) = 0 THEN None
    ELSE LET allEventIds     == [i \in 1..Len(evs) |-> evs[i].event_id]
             segments        == aggregateLocationEvents(evs).segments
             parts           == NonLocationSummaryParts(evs)
             locationMessage == buildDigestMessage(segments)
             message         == IF Len(parts) > 0
                                THEN locationMessage \o " | " \o JoinStr(parts, ", ")
                                ELSE locationMessage
             timestamps      == {GetTime(evs[i].ts) : i \in 1..Len(evs)}
         IN  Some([digest_id |-> uuid,
                   message   |-> message,
                   payload   |-> [type         |-> "location",
                                  segments     |-> segments,
                                  period_start |-> ToISOString(SetMin(timestamps)),
                                  period_end   |-> ToISOString(SetMax(timestamps)),
                                  event_ids    |-> allEventIds]])

\* generateDigest(events), with the id generateUUID() returns; null is None
generateDigest(evs, uuid) ==
    IF Len(evs) = 0 THEN None
    ELSE LET allEventIds     == [i \in 1..Len(evs) |-> evs[i].event_id]
             segments        == aggregateLocationEvents(evs).segments
             parts           == NonLocationSummaryParts(evs)
             locationMessage == buildDigestMessage(segments)
             message         == IF Len(parts) > 0
                                THEN locationMessage \o " | " \o JoinStr(parts, ", ")
                                ELSE locationMessage
             timestamps      == {GetTime(evs[i].ts) : i \in 1..Len(evs)}
         IN  Some([digest_id |-> uuid,
                   message   |-> message,
                   payload   |-> [type         |-> "location",
                                  segments     |-> segments,
                                  period_start |-> ToISOString(SetMin(timestamps)),
                                  period_end   |-> ToISOString(SetMax(timestamps)),
                                  event_ids    |-> allEventIds]])

\* buildOpenClawPayload(digest)
buildOpenClawPayload(digestId, message) ==
    [message  |-> "[digest:" \o digestId \o "] " \o message,
     name     |-> "EventDigest",
     wakeMode |-> "now",
     deliver  |-> TRUE,
     channel  |-> "last"]

\* retryPayload with the message alone, the digest id left out
retryPayloadWithoutId(u) ==
    [message  |-> u.message,
     name     |-> "EventDigest",
     wakeMode |-> "now",
     deliver  |-> TRUE,
     channel  |-> "last"]

\* const retryPayload = { ... } of the retry loop; u is an element of the
\* digests array GET /digests answered with
retryPayload(u) ==
    [message  |-> "[digest:" \o u.digest_id \o "] " \o u.message,
     name     |-> "EventDigest",
     wakeMode |-> "now",
     deliver  |-> TRUE,
     channel  |-> "last"]

\* ------------------------------------------------------ Event API: handlers
\* A handler is an operator from the tables and the request to the tables after
\* the request and the response.  Each is one database statement, or a read
\* followed by one, so the model takes a request as one atomic step.

\* resp also names the request it answers: op, and body or ids
NoResp ==
    [op |-> "none", body |-> None, ids |-> {},
     status |-> 0, message |-> "", issues |-> <<>>, duplicate |-> FALSE,
     event_id |-> "", processed_count |-> 0, digest_id |-> "", sent_at |-> None,
     request |-> None]

\* the row prisma.event.createMany inserts; processed_at has no value in data
EventRow(body) ==
    [type        |-> body.type,
     ts          |-> GetTime(body.ts),
     payload     |-> body.payload,
     deviceId    |-> IF Has(body, "device_id") THEN Some(body.device_id) ELSE None,
     meta        |-> IF Has(body, "meta") THEN Some(body.meta) ELSE None,
     processedAt |-> None]

\* CreateEvent with the conflict check left out: every call counts as an insert
CreateEventNoConflictCheck(store, body) ==
    [events |-> store @@ (body.event_id :> EventRow(body)), count |-> 1]

\* CreateEvent as an upsert that overwrites the row of an event_id it finds
CreateEventOverwrite(store, body) ==
    [events |-> [id \in DOMAIN store \cup {body.event_id} |->
                    IF id = body.event_id THEN EventRow(body) ELSE store[id]],
     count  |-> IF body.event_id \in DOMAIN store THEN 0 ELSE 1]

\* prisma.event.createMany({ data, skipDuplicates: true }): INSERT .. ON CONFLICT
\* DO NOTHING on the unique event_id
CreateEvent(store, body) ==
    IF body.event_id \in DOMAIN store
    THEN [events |-> store, count |-> 0]
    ELSE [events |-> store @@ (body.event_id :> EventRow(body)), count |-> 1]

\* HandlePostEvents with the two validations in the other order: the payload
\* schema of the type first, wherever the body names a supported type
HandlePostEventsPayloadFirst(store, body) ==
    LET issues == eventSchema(body)
        payloadIssues ==
            IF IsObject(body) /\ Has(body, "type") /\ Has(body, "payload")
               /\ body.type \in supportedTypes /\ IsObject(body.payload)
            THEN payloadSchemas(body.type, body.payload) ELSE <<>>
    IN  IF payloadIssues # <<>>
        THEN [events |-> store,
              resp   |-> [NoResp EXCEPT !.op = "postEvents", !.body = Some(body), !.status = 400,
                            !.message = "Invalid payload for type '" \o body.type \o "'",
                            !.issues = payloadIssues]]
        ELSE IF issues # <<>>
        THEN [events |-> store,
              resp   |-> [NoResp EXCEPT !.op = "postEvents", !.body = Some(body), !.status = 400,
                                        !.message = "Invalid event payload",
                                        !.issues = issues]]
        ELSE LET result == CreateEvent(store, body)
             IN  [events |-> result.events,
                  resp   |-> [NoResp EXCEPT !.op = "postEvents", !.body = Some(body), !.status = 200,
                                            !.event_id = body.event_id,
                                            !.duplicate = (result.count = 0)]]

\* POST /events
HandlePostEvents(store, body) ==
    LET issues == eventSchema(body)
    IN  IF issues # <<>>
        THEN [events |-> store,
              resp   |-> [NoResp EXCEPT !.op = "postEvents", !.body = Some(body), !.status = 400,
                                        !.message = "Invalid event payload",
                                        !.issues = issues]]
        ELSE LET payloadIssues == payloadSchemas(body.type, body.payload)
             IN  IF payloadIssues # <<>>
                 THEN [events |-> store,
                       resp   |-> [NoResp EXCEPT !.op = "postEvents", !.body = Some(body), !.status = 400,
                                     !.message = "Invalid payload for type '" \o body.type \o "'",
                                     !.issues = payloadIssues]]
                 ELSE LET result == CreateEvent(store, body)
                      IN  [events |-> result.events,
                           resp   |-> [NoResp EXCEPT !.op = "postEvents", !.body = Some(body), !.status = 200,
                                                     !.event_id = body.event_id,
                                                     !.duplicate = (result.count = 0)]]

\* prisma.event.upsert({ where: { eventId }, update: {}, create }) of
\* routes/events.ts; meta defaults to {}
UpsertEvent(store, body) ==
    IF body.event_id \in DOMAIN store
    THEN store
    ELSE store @@ (body.event_id :>
            [EventRow(body) EXCEPT !.meta = IF Has(body, "meta") THEN Some(body.meta)
                                            ELSE Some(<<>>)])

\* POST /events of routes/events.ts: the answer has no duplicate field
HandlePostEventsV1(store, body) ==
    LET issues == eventSchemaV1(body)
    IN  IF issues # <<>>
        THEN [events |-> store,
              resp   |-> [NoResp EXCEPT !.op = "postEventsV1", !.body = Some(body), !.status = 400,
                                        !.message = "Invalid event payload",
                                        !.issues = issues]]
        ELSE [events |-> UpsertEvent(store, body),
              resp   |-> [NoResp EXCEPT !.op = "postEventsV1", !.body = Some(body), !.status = 200,
                                        !.event_id = body.event_id]]

\* an element of the events array GET /events answers with
EventJson(store, id) ==
    [event_id     |-> id,
     type         |-> store[id].type,
     ts           |-> ToISOString(store[id].ts),
     payload      |-> store[id].payload,
     processed_at |-> IF store[id].processedAt = None THEN None
                      ELSE Some(ToISOString(store[id].processedAt[1]))]

\* GET /events: findMany({ where, orderBy: { ts: "desc" }, take: limit }).  The
\* order of rows with equal ts is the database's choice: the set of possible answers.
ListEvents(store, unprocessedOnly, type, limit) ==
    LET rows == {id \in DOMAIN store :
                    /\ unprocessedOnly => store[id].processedAt = None
                    /\ type # None => store[id].type = type[1]}
    IN  { [i \in 1..Min2(limit, Len(o)) |-> EventJson(store, o[i])] :
            o \in {s \in Orderings(rows) :
                      \A i, j \in 1..Len(s) : i < j => store[s[i]].ts >= store[s[j]].ts} }

\* MarkProcessed counting the rows the id list matches, not the rows it updates
MarkProcessedCountsMatched(store, ids, at) ==
    LET hit == {id \in DOMAIN store : id \in ids /\ store[id].processedAt = None}
    IN  [events |-> [id \in DOMAIN store |->
                        IF id \in hit THEN [store[id] EXCEPT !.processedAt = Some(at)]
                        ELSE store[id]],
         count  |-> Cardinality({id \in DOMAIN store : id \in ids})]

\* MarkProcessed without processedAt: null in the where clause
MarkProcessedAnyRow(store, ids, at) ==
    LET hit == {id \in DOMAIN store : id \in ids}
    IN  [events |-> [id \in DOMAIN store |->
                        IF id \in hit THEN [store[id] EXCEPT !.processedAt = Some(at)]
                        ELSE store[id]],
         count  |-> Cardinality(hit)]

\* POST /events/process: updateMany({ where: { eventId in ids, processedAt: null } })
MarkProcessed(store, ids, at) ==
    LET hit == {id \in DOMAIN store : id \in ids /\ store[id].processedAt = None}
    IN  [events |-> [id \in DOMAIN store |->
                        IF id \in hit THEN [store[id] EXCEPT !.processedAt = Some(at)]
                        ELSE store[id]],
         count  |-> Cardinality(hit)]

\* POST /events/process
HandleProcessEvents(store, ids, at) ==
    IF ids = {}
    THEN [events |-> store,
          resp   |-> [NoResp EXCEPT !.op = "process", !.status = 400,
                                    !.message = "Invalid payload",
                                    !.issues = <<"event_ids: Array must contain at least 1 element(s)">>]]
    ELSE LET result == MarkProcessed(store, ids, at)
         IN  [events |-> result.events,
              resp   |-> [NoResp EXCEPT !.op = "process", !.status = 200, !.ids = ids,
                                        !.processed_count = result.count]]

\* CreateDigest with the conflict check left out: the row is written anew
CreateDigestNoConflictCheck(table, d, at) ==
    [digests |-> [id \in DOMAIN table \cup {d.digest_id} |->
                    IF id = d.digest_id
                    THEN [payload |-> d.payload, message |-> d.message,
                          createdAt |-> at, sentAt |-> None]
                    ELSE table[id]],
     count   |-> 1]

\* POST /digests: digest.createMany({ data, skipDuplicates: true }) on the unique
\* digest_id; created_at defaults to the current time, sent_at to null
CreateDigest(table, d, at) ==
    IF d.digest_id \in DOMAIN table
    THEN [digests |-> table, count |-> 0]
    ELSE [digests |-> table @@ (d.digest_id :> [payload   |-> d.payload,
                                                message   |-> d.message,
                                                createdAt |-> at,
                                                sentAt    |-> None]),
          count   |-> 1]

\* an element of the digests array GET /digests answers with
DigestJson(table, id) ==
    [digest_id |-> id, payload |-> table[id].payload, message |-> table[id].message]

\* GET /digests: findMany({ where: unsent_only ? { sentAt: null } : undefined,
\* orderBy: { createdAt: "desc" }, take: limit })
ListDigests(table, unsentOnly, limit) ==
    LET rows == {id \in DOMAIN table : unsentOnly => table[id].sentAt = None}
    IN  { [i \in 1..Min2(limit, Len(o)) |-> DigestJson(table, o[i])] :
            o \in {s \in Orderings(rows) :
                      \A i, j \in 1..Len(s) :
                          i < j => table[s[i]].createdAt >= table[s[j]].createdAt} }

\* MarkSent with the update clearing sentAt of a digest that has one
MarkSentClearing(table, id, at) ==
    IF id \notin DOMAIN table
    THEN [digests |-> table, status |-> 404]
    ELSE [digests |-> [table EXCEPT ![id].sentAt = IF @ = None THEN Some(at) ELSE None],
          status |-> 200]

\* POST /digests/:digestId/sent with body {}: findUnique, then update sentAt
MarkSent(table, id, at) ==
    IF id \notin DOMAIN table
    THEN [digests |-> table, status |-> 404]
    ELSE [digests |-> [table EXCEPT ![id].sentAt = Some(at)], status |-> 200]

\* digestSchema.safeParse
digestSchema(body) ==
    IF ~IsObject(body) THEN <<"(root): Expected object">>
    ELSE (IF ~Has(body, "digest_id") THEN <<"digest_id: Required">>
          ELSE IF ~IsUuid(body.digest_id) THEN <<"digest_id: Invalid uuid">> ELSE <<>>)
      \o (IF ~Has(body, "payload") THEN <<"payload: Required">>
          ELSE IF ~IsObject(body.payload) THEN <<"payload: Expected object">> ELSE <<>>)
      \o (IF Has(body, "message") /\ body.message = ""
          THEN <<"message: String must contain at least 1 character(s)">> ELSE <<>>)

\* POST /digests
HandlePostDigests(table, body, at) ==
    LET issues == digestSchema(body)
    IN  IF issues # <<>>
        THEN [digests |-> table,
              resp    |-> [NoResp EXCEPT !.op = "postDigests", !.body = Some(body), !.status = 400,
                                         !.message = "Invalid digest payload",
                                         !.issues = issues]]
        ELSE LET result == CreateDigest(table, body, at)
             IN  [digests |-> result.digests,
                  resp    |-> [NoResp EXCEPT !.op = "postDigests", !.body = Some(body), !.status = 200,
                                             !.digest_id = body.digest_id,
                                             !.duplicate = (result.count = 0)]]

\* markSentSchema.safeParse(request.body ?? {})
markSentSchema(body) ==
    IF Has(body, "sent_at") /\ body.sent_at.form # "iso"
    THEN <<"sent_at: Invalid datetime">> ELSE <<>>

\* POST /digests/:digestId/sent
HandleMarkSent(table, digestId, body, at) ==
    LET issues == markSentSchema(body)
        answer == [NoResp EXCEPT !.op = "markSent", !.body = Some(body), !.digest_id = digestId]
    IN  IF ~IsUuid(digestId)
        THEN [digests |-> table,
              resp    |-> [answer EXCEPT !.status = 400, !.message = "Invalid digest id"]]
        ELSE IF issues # <<>>
        THEN [digests |-> table,
              resp    |-> [answer EXCEPT !.status = 400, !.message = "Invalid payload",
                                         !.issues = issues]]
        ELSE LET sentAt == IF Has(body, "sent_at") THEN GetTime(body.sent_at) ELSE at
                 result == MarkSent(table, digestId, sentAt)
             IN  IF result.status = 404
                 THEN [digests |-> table,
                       resp    |-> [answer EXCEPT !.status = 404, !.message = "Digest not found"]]
                 ELSE [digests |-> result.digests,
                       resp    |-> [answer EXCEPT !.status = 200,
                                           !.sent_at = Some(ToISOString(sentAt))]]

\* ------------------------------------- plain http handler (app.js, server.js 1-31)

\* InMemoryEventRepository.insertEvent(envelope)
insertEvent(repo, envelope, at) ==
    IF envelope.event_id \in DOMAIN repo
    THEN [eventsById |-> repo, inserted |-> FALSE]
    ELSE [eventsById |-> repo @@ (envelope.event_id :>
                            [envelope |-> envelope, processed_at |-> None, created_at |-> at]),
          inserted   |-> TRUE]

\* createHandler: POST /events
JsHandlePostEvents(repo, body, at) ==
    LET errors == validateEventEnvelope(body)
    IN  IF Len(errors) > 0
        THEN [eventsById |-> repo,
              resp       |-> [NoResp EXCEPT !.op = "jsPostEvents", !.body = Some(body), !.status = 400,
                                            !.message = "validation_error",
                                            !.issues = errors]]
        ELSE LET result == insertEvent(repo, body, at)
             IN  [eventsById |-> result.eventsById,
                  resp       |-> [NoResp EXCEPT !.op = "jsPostEvents", !.body = Some(body), !.status = 200,
                                                !.duplicate = ~result.inserted]]

\* ------------------------------------------- requests and authentication

\* env.EVENT_API_TOKEN, bearerToken
EVENT_API_TOKEN == "secret-token"

\* an Authorization header: the string prefix \o rest, prefix being its first
\* characters up to and including the first space
Header(prefix, rest) == [prefix |-> prefix, rest |-> rest]

HeaderString(h) == h.prefix \o h.rest

\* request.headers.authorization: absent, or one of these
AuthHeaders ==
    {None} \cup
    {Some(h) : h \in {Header("Bearer ", EVENT_API_TOKEN),
                      Header("Bearer ", "wrong-token"),
                      Header("Bearer ", ""),
                      Header("bearer ", EVENT_API_TOKEN),
                      Header("Basic ", EVENT_API_TOKEN),
                      Header("", EVENT_API_TOKEN)}}

Urls == {"/healthz", "/events", "/events/process", "/digests",
         "/digests/:digestId/sent", "/other"}

\* the bodies sent to a url
RequestBodies(url) ==
    IF url = "/events" THEN Arrivals \cup {[array_items |-> "[]"]}
    ELSE IF url = "/events/process" THEN {[event_ids |-> {EventIdOf(1)}]}
    ELSE IF url = "/digests" THEN {DigestBody(1, 1)}
    ELSE {[none |-> TRUE]}

Requests ==
    UNION { { [method |-> m, url |-> u, digestId |-> DigestIdOf(1),
               authorization |-> a, body |-> b] :
                 m \in {"GET", "POST"}, a \in AuthHeaders, b \in RequestBodies(u) } :
            u \in Urls }

\* the answer to a request that writes nothing
Reply(old, op, status, message) ==
    [events |-> old.events, digests |-> old.digests, eventsById |-> old.eventsById,
     resp   |-> [NoResp EXCEPT !.op = op, !.status = status, !.message = message]]

\* buildApp's onRequest hook with the comparison of the token left out
onRequestAnyBearer(req) ==
    IF req.url = "/healthz" THEN <<>>
    ELSE IF req.authorization = None \/ req.authorization[1].prefix # "Bearer "
    THEN <<"Missing bearer token">>
    ELSE <<>>

\* buildApp's onRequest hook: the message of the 401 it sends, <<>> if it lets
\* the request through
onRequest(req) ==
    IF req.url = "/healthz" THEN <<>>
    ELSE IF req.authorization = None \/ req.authorization[1].prefix # "Bearer "
    THEN <<"Missing bearer token">>
    ELSE IF req.authorization[1].rest # EVENT_API_TOKEN
    THEN <<"Invalid bearer token">>
    ELSE <<>>

\* buildApp: the hook, then the route (version names the events route that is
\* registered); a url no route matches is answered 404
buildApp(old, req, version, at) ==
    LET rejected == onRequest(req)
    IN  IF rejected # <<>> THEN Reply(old, "onRequest", 401, rejected[1])
        ELSE IF req.method = "GET" /\ req.url = "/healthz" THEN Reply(old, "healthz", 200, "")
        ELSE IF req.method = "POST" /\ req.url = "/events"
        THEN LET r == IF version = "ts" THEN HandlePostEvents(old.events, req.body)
                      ELSE HandlePostEventsV1(old.events, req.body)
             IN  [events |-> r.events, digests |-> old.digests,
                  eventsById |-> old.eventsById, resp |-> r.resp]
        ELSE IF req.method = "GET" /\ req.url = "/events" THEN Reply(old, "getEvents", 200, "")
        ELSE IF version = "ts" /\ req.method = "POST" /\ req.url = "/events/process"
        THEN LET r == HandleProcessEvents(old.events, req.body.event_ids, at)
             IN  [events |-> r.events, digests |-> old.digests,
                  eventsById |-> old.eventsById, resp |-> r.resp]
        ELSE IF version = "ts" /\ req.method = "POST" /\ req.url = "/digests"
        THEN LET r == HandlePostDigests(old.digests, req.body, at)
             IN  [events |-> old.events, digests |-> r.digests,
                  eventsById |-> old.eventsById, resp |-> r.resp]
        ELSE IF version = "ts" /\ req.method = "GET" /\ req.url = "/digests"
        THEN Reply(old, "getDigests", 200, "")
        ELSE IF version = "ts" /\ req.method = "POST" /\ req.url = "/digests/:digestId/sent"
        THEN LET r == HandleMarkSent(old.digests, req.digestId, req.body, at)
             IN  [events |-> old.events, digests |-> r.digests,
                  eventsById |-> old.eventsById, resp |-> r.resp]
        ELSE Reply(old, "notFound", 404, "Route not found")

\* createHandler({ repository, bearerToken }): handler(req, res)
createHandler(old, req, at) ==
    IF req.method = "GET" /\ req.url = "/healthz" THEN Reply(old, "healthz", 200, "")
    ELSE IF req.method = "POST" /\ req.url = "/events"
    THEN IF req.authorization = None \/
            HeaderString(req.authorization[1]) # "Bearer " \o EVENT_API_TOKEN
         THEN Reply(old, "jsPostEvents", 401, "unauthorized")
         ELSE LET r == JsHandlePostEvents(old.eventsById, req.body, at)
              IN  [events |-> old.events, digests |-> old.digests,
                   eventsById |-> r.eventsById, resp |-> r.resp]
    ELSE Reply(old, "notFound", 404, "not_found")

\* ------------------------------------------------------------------- state

\* the worker asks for limit=500; GET /digests is asked without a limit (default 100)
FetchLimit == 500
DigestListLimit == 100

\* The repository holds three implementations of the Event API: the Fastify route
\* over prisma with the digest endpoints ("ts": server.js 323-616), the Fastify
\* route of routes/events.ts ("v1") and the plain http handler over
\* InMemoryEventRepository ("js": server.js 1-31, app.js).  The worker needs the
\* digest endpoints, which only the first one has.
Init ==
    /\ impl = "ts"
    /\ events = <<>>
    /\ digests = <<>>
    /\ eventsById = <<>>
    /\ now = 0
    /\ uuidCount = 0
    /\ resp = NoResp
    /\ pc = [w \in Workers |-> "idle"]
    /\ batch = [w \in Workers |-> <<>>]
    /\ digest = [w \in Workers |-> None]
    /\ unsent = [w \in Workers |-> <<>>]
    /\ markReq = [w \in Workers |-> None]
    /\ posted = [w \in Workers |-> <<>>]
    /\ acked = {}
    /\ aggInput = <<>>
    /\ aggRest = <<>>
    /\ aggAcc = AggInit
    /\ aggDigest = None

\* time passes
AdvanceClock ==
    /\ now < MaxClock
    /\ now' = now + 1
    /\ resp' = NoResp
    /\ UNCHANGED <<otherVars, events, digests, eventsById, uuidCount, acked>>
    /\ UNCHANGED workerVars

\* ------------------------------------------------------- Event API: requests

\* a client's POST /events, answered by the Fastify route
PostEvents(body) ==
    /\ impl = "ts"
    /\ LET r == HandlePostEvents(events, body)
       IN  events' = r.events /\ resp' = r.resp
    /\ UNCHANGED <<otherVars, digests, eventsById, now, uuidCount, acked>>
    /\ UNCHANGED workerVars

\* a client's POST /events, answered by the plain http handler
JsPostEvents(body) ==
    /\ impl = "js"
    /\ LET r == JsHandlePostEvents(eventsById, body, now)
       IN  eventsById' = r.eventsById /\ resp' = r.resp
    /\ UNCHANGED <<otherVars, events, digests, now, uuidCount, acked>>
    /\ UNCHANGED workerVars

\* a client's POST /events, answered by the route of routes/events.ts
PostEventsV1(body) ==
    /\ impl = "v1"
    /\ LET r == HandlePostEventsV1(events, body)
       IN  events' = r.events /\ resp' = r.resp
    /\ UNCHANGED <<otherVars, digests, eventsById, now, uuidCount, acked>>
    /\ UNCHANGED workerVars

\* a client's POST /events/process
ProcessEvents(ids) ==
    /\ impl = "ts"
    /\ LET r == HandleProcessEvents(events, ids, now)
       IN  events' = r.events /\ resp' = r.resp
    /\ UNCHANGED <<otherVars, digests, eventsById, now, uuidCount, acked>>
    /\ UNCHANGED workerVars

\* a client's POST /digests
PostDigests(body) ==
    /\ impl = "ts"
    /\ LET r == HandlePostDigests(digests, body, now)
       IN  digests' = r.digests /\ resp' = r.resp
    /\ UNCHANGED <<otherVars, events, eventsById, now, uuidCount, acked>>
    /\ UNCHANGED workerVars

\* a client's POST /digests/:digestId/sent
DigestSent(digestId, body) ==
    /\ impl = "ts"
    /\ LET r == HandleMarkSent(digests, digestId, body, now)
       IN  digests' = r.digests /\ resp' = r.resp
    /\ UNCHANGED <<otherVars, events, eventsById, now, uuidCount, acked>>
    /\ UNCHANGED workerVars

NextApi ==
    \/ \E body \in Bodies : PostEvents(body)
    \/ \E body \in Bodies : JsPostEvents(body)
    \/ \E body \in Bodies : PostEventsV1(body)
    \/ \E ids \in SUBSET EventIds : ProcessEvents(ids)
    \/ AdvanceClock

\* either implementation may be the one deployed
InitApi ==
    /\ impl \in {"ts", "v1", "js"}
    /\ events = <<>>
    /\ digests = <<>>
    /\ eventsById = <<>>
    /\ now = 0
    /\ uuidCount = 0
    /\ resp = NoResp
    /\ pc = [w \in Workers |-> "idle"]
    /\ batch = [w \in Workers |-> <<>>]
    /\ digest = [w \in Workers |-> None]
    /\ unsent = [w \in Workers |-> <<>>]
    /\ markReq = [w \in Workers |-> None]
    /\ posted = [w \in Workers |-> <<>>]
    /\ acked = {}
    /\ aggInput = <<>>
    /\ aggRest = <<>>
    /\ aggAcc = AggInit
    /\ aggDigest = None

\* the Event API under arbitrary requests
SpecApi == InitApi /\ [][NextApi]_vars

\* the deployed server receives a request and answers it
Receive(req) ==
    /\ LET old == [events |-> events, digests |-> digests, eventsById |-> eventsById]
           r   == IF impl = "js" THEN createHandler(old, req, now)
                  ELSE buildApp(old, req, impl, now)
       IN  /\ events' = r.events
           /\ digests' = r.digests
           /\ eventsById' = r.eventsById
           /\ resp' = [r.resp EXCEPT !.request = Some(req)]
    /\ UNCHANGED <<otherVars, now, uuidCount, acked>>
    /\ UNCHANGED workerVars

NextApp ==
    \/ \E req \in Requests : Receive(req)
    \/ AdvanceClock

\* the Event API with its authentication, under arbitrary requests
SpecApp == InitApi /\ [][NextApp]_vars

NextDigestApi ==
    \/ \E body \in DigestBodies : PostDigests(body)
    \/ \E id \in DigestIds \cup {"bad-uuid"}, body \in SentBodies : DigestSent(id, body)
    \/ AdvanceClock

\* the digest endpoints of the Event API under arbitrary requests
SpecDigestApi == Init /\ [][NextDigestApi]_vars

\* ------------------------------------------------ digest-worker.ts: main()
\* One run of main() is a tick.  pc is the await main() is suspended at; the
\* synchronous code after an await belongs to the step that resumes it.
\* "done": main() returned; "exited": process.exit(1), also through main().catch.

serverVars == <<otherVars, events, digests, eventsById, now, uuidCount, resp, acked>>

\* cron starts the worker
StartTick(w) ==
    /\ pc[w] \in {"idle", "done", "exited"}
    /\ pc' = [pc EXCEPT ![w] = "fetch"]
    /\ batch' = [batch EXCEPT ![w] = <<>>]
    /\ digest' = [digest EXCEPT ![w] = None]
    /\ unsent' = [unsent EXCEPT ![w] = <<>>]
    /\ markReq' = [markReq EXCEPT ![w] = None]
    /\ posted' = [posted EXCEPT ![w] = <<>>]
    /\ UNCHANGED serverVars

\* GET /events?unprocessed_only=true&limit=500 answers 2xx; then generateDigest
FetchOk(w) ==
    /\ pc[w] = "fetch"
    /\ \E evs \in ListEvents(events, TRUE, None, FetchLimit) :
        /\ batch' = [batch EXCEPT ![w] = evs]
        /\ IF Len(evs) = 0
           THEN /\ pc' = [pc EXCEPT ![w] = "done"]
                /\ UNCHANGED <<digest, uuidCount>>
           ELSE /\ uuidCount < MaxDigests
                /\ LET d == generateDigest(evs, DigestIdOf(uuidCount + 1))
                   IN  /\ digest' = [digest EXCEPT ![w] = d]
                       /\ pc' = [pc EXCEPT ![w] = IF d = None THEN "done" ELSE "persist"]
                /\ uuidCount' = uuidCount + 1
    /\ UNCHANGED <<otherVars, events, digests, eventsById, now, resp, acked>>
    /\ UNCHANGED <<unsent, markReq, posted>>

\* the request fails: !eventsRes.ok, or fetch rejects
FetchFail(w) ==
    /\ pc[w] = "fetch"
    /\ pc' = [pc EXCEPT ![w] = "exited"]
    /\ UNCHANGED serverVars
    /\ UNCHANGED <<batch, digest, unsent, markReq, posted>>

\* POST /digests answers 2xx
PersistOk(w) ==
    /\ pc[w] = "persist"
    /\ digests' = CreateDigest(digests, digest[w][1], now).digests
    /\ pc' = [pc EXCEPT ![w] = "mark"]
    /\ UNCHANGED <<otherVars, events, eventsById, now, uuidCount, resp, acked>>
    /\ UNCHANGED <<batch, digest, unsent, markReq, posted>>

\* PersistFail without the process.exit(1): on to MARK_PROCESSED
PersistFailThenMark(w) ==
    /\ pc[w] = "persist"
    /\ pc' = [pc EXCEPT ![w] = "mark"]
    /\ UNCHANGED serverVars
    /\ UNCHANGED <<batch, digest, unsent, markReq, posted>>

\* !digestRes.ok, or fetch rejects: process.exit(1)
PersistFail(w) ==
    /\ pc[w] = "persist"
    /\ pc' = [pc EXCEPT ![w] = "exited"]
    /\ UNCHANGED serverVars
    /\ UNCHANGED <<batch, digest, unsent, markReq, posted>>

\* POST /events/process with { event_ids: digest.payload.event_ids } answers 2xx
MarkOk(w) ==
    /\ pc[w] = "mark"
    /\ LET ids == digest[w][1].payload.event_ids
       IN  /\ markReq' = [markReq EXCEPT ![w] = Some(ids)]
           /\ events' = MarkProcessed(events, Range(ids), now).events
    /\ pc' = [pc EXCEPT ![w] = "deliver"]
    /\ UNCHANGED <<otherVars, digests, eventsById, now, uuidCount, resp, acked>>
    /\ UNCHANGED <<batch, digest, unsent, posted>>

\* MarkFail without the process.exit(1): on to DELIVER
MarkFailThenDeliver(w) ==
    /\ pc[w] = "mark"
    /\ markReq' = [markReq EXCEPT ![w] = Some(digest[w][1].payload.event_ids)]
    /\ pc' = [pc EXCEPT ![w] = "deliver"]
    /\ UNCHANGED serverVars
    /\ UNCHANGED <<batch, digest, unsent, posted>>

\* !processRes.ok, or fetch rejects: process.exit(1)
MarkFail(w) ==
    /\ pc[w] = "mark"
    /\ markReq' = [markReq EXCEPT ![w] = Some(digest[w][1].payload.event_ids)]
    /\ pc' = [pc EXCEPT ![w] = "exited"]
    /\ UNCHANGED serverVars
    /\ UNCHANGED <<batch, digest, unsent, posted>>

\* a POST to the sink: the digest id it is about, its body, and whether the
\* sink answered 2xx (sendRes.ok, retryRes.ok)
SinkRequest(digestId, body, ok) ==
    [digest_id |-> digestId, body |-> body, ok |-> ok]

\* POST openClawUrl answers 2xx
DeliverOk(w) ==
    /\ pc[w] = "deliver"
    /\ LET d == digest[w][1]
       IN  /\ posted' = [posted EXCEPT ![w] = Append(@, SinkRequest(d.digest_id, buildOpenClawPayload(d.digest_id, d.message), TRUE))]
           /\ acked' = acked \cup {d.digest_id}
    /\ pc' = [pc EXCEPT ![w] = "confirm"]
    /\ UNCHANGED <<otherVars, events, digests, eventsById, now, uuidCount, resp>>
    /\ UNCHANGED <<batch, digest, unsent, markReq>>

\* DeliverFail without the test of sendRes.ok: on to CONFIRM_SENT
DeliverFailThenConfirm(w) ==
    /\ pc[w] = "deliver"
    /\ LET d == digest[w][1]
       IN  posted' = [posted EXCEPT ![w] = Append(@, SinkRequest(d.digest_id, buildOpenClawPayload(d.digest_id, d.message), FALSE))]
    /\ pc' = [pc EXCEPT ![w] = "confirm"]
    /\ UNCHANGED serverVars
    /\ UNCHANGED <<batch, digest, unsent, markReq>>

\* the sink answers non-2xx: logged, and main() goes on to the retry section
DeliverFail(w) ==
    /\ pc[w] = "deliver"
    /\ LET d == digest[w][1]
       IN  posted' = [posted EXCEPT ![w] = Append(@, SinkRequest(d.digest_id, buildOpenClawPayload(d.digest_id, d.message), FALSE))]
    /\ pc' = [pc EXCEPT ![w] = "retryFetch"]
    /\ UNCHANGED serverVars
    /\ UNCHANGED <<batch, digest, unsent, markReq>>

\* fetch rejects (network error): main().catch
DeliverThrow(w) ==
    /\ pc[w] = "deliver"
    /\ LET d == digest[w][1]
       IN  posted' = [posted EXCEPT ![w] = Append(@, SinkRequest(d.digest_id, buildOpenClawPayload(d.digest_id, d.message), FALSE))]
    /\ pc' = [pc EXCEPT ![w] = "exited"]
    /\ UNCHANGED serverVars
    /\ UNCHANGED <<batch, digest, unsent, markReq>>

\* POST /digests/:id/sent commits
ConfirmOk(w) ==
    /\ pc[w] = "confirm"
    /\ digests' = MarkSent(digests, digest[w][1].digest_id, now).digests
    /\ pc' = [pc EXCEPT ![w] = "retryFetch"]
    /\ UNCHANGED <<otherVars, events, eventsById, now, uuidCount, resp, acked>>
    /\ UNCHANGED <<batch, digest, unsent, markReq, posted>>

\* it answers non-2xx: the response is not looked at
ConfirmFail(w) ==
    /\ pc[w] = "confirm"
    /\ pc' = [pc EXCEPT ![w] = "retryFetch"]
    /\ UNCHANGED serverVars
    /\ UNCHANGED <<batch, digest, unsent, markReq, posted>>

ConfirmThrow(w) ==
    /\ pc[w] = "confirm"
    /\ pc' = [pc EXCEPT ![w] = "exited"]
    /\ UNCHANGED serverVars
    /\ UNCHANGED <<batch, digest, unsent, markReq, posted>>

\* RetryCandidates with the loop's continue left out
RetryCandidatesAll(list, ownId) == list

\* the loop's "if (unsent.digest_id === digest.digest_id) continue"
RetryCandidates(list, ownId) ==
    SelectSeqBy(list, {u \in Range(list) : u.digest_id # ownId})

\* where main() is after the loop has dealt with the head of rest
AfterRetry(rest) == IF rest = <<>> THEN "done" ELSE "retry"

\* GET /digests?unsent_only=true answers 2xx
RetryFetchOk(w) ==
    /\ pc[w] = "retryFetch"
    /\ \E list \in ListDigests(digests, TRUE, DigestListLimit) :
        LET todo == RetryCandidates(list, digest[w][1].digest_id)
        IN  /\ unsent' = [unsent EXCEPT ![w] = todo]
            /\ pc' = [pc EXCEPT ![w] = AfterRetry(todo)]
    /\ UNCHANGED serverVars
    /\ UNCHANGED <<batch, digest, markReq, posted>>

\* !unsentRes.ok: the loop is skipped
RetryFetchFail(w) ==
    /\ pc[w] = "retryFetch"
    /\ pc' = [pc EXCEPT ![w] = "done"]
    /\ UNCHANGED serverVars
    /\ UNCHANGED <<batch, digest, unsent, markReq, posted>>

\* the sink answers 2xx to the retry of the first digest left
RetrySendOk(w) ==
    /\ pc[w] = "retry"
    /\ LET u == Head(unsent[w])
       IN  /\ posted' = [posted EXCEPT ![w] = Append(@, SinkRequest(u.digest_id, retryPayload(u), TRUE))]
           /\ acked' = acked \cup {u.digest_id}
    /\ pc' = [pc EXCEPT ![w] = "retryConfirm"]
    /\ UNCHANGED <<otherVars, events, digests, eventsById, now, uuidCount, resp>>
    /\ UNCHANGED <<batch, digest, unsent, markReq>>

RetrySendFail(w) ==
    /\ pc[w] = "retry"
    /\ LET u == Head(unsent[w])
       IN  posted' = [posted EXCEPT ![w] = Append(@, SinkRequest(u.digest_id, retryPayload(u), FALSE))]
    /\ unsent' = [unsent EXCEPT ![w] = Tail(@)]
    /\ pc' = [pc EXCEPT ![w] = AfterRetry(Tail(unsent[w]))]
    /\ UNCHANGED serverVars
    /\ UNCHANGED <<batch, digest, markReq>>

RetrySendThrow(w) ==
    /\ pc[w] = "retry"
    /\ LET u == Head(unsent[w])
       IN  posted' = [posted EXCEPT ![w] = Append(@, SinkRequest(u.digest_id, retryPayload(u), FALSE))]
    /\ pc' = [pc EXCEPT ![w] = "exited"]
    /\ UNCHANGED serverVars
    /\ UNCHANGED <<batch, digest, unsent, markReq>>

RetryConfirmOk(w) ==
    /\ pc[w] = "retryConfirm"
    /\ digests' = MarkSent(digests, Head(unsent[w]).digest_id, now).digests
    /\ unsent' = [unsent EXCEPT ![w] = Tail(@)]
    /\ pc' = [pc EXCEPT ![w] = AfterRetry(Tail(unsent[w]))]
    /\ UNCHANGED <<otherVars, events, eventsById, now, uuidCount, resp, acked>>
    /\ UNCHANGED <<batch, digest, markReq, posted>>

RetryConfirmFail(w) ==
    /\ pc[w] = "retryConfirm"
    /\ unsent' = [unsent EXCEPT ![w] = Tail(@)]
    /\ pc' = [pc EXCEPT ![w] = AfterRetry(Tail(unsent[w]))]
    /\ UNCHANGED serverVars
    /\ UNCHANGED <<batch, digest, markReq, posted>>

RetryConfirmThrow(w) ==
    /\ pc[w] = "retryConfirm"
    /\ pc' = [pc EXCEPT ![w] = "exited"]
    /\ UNCHANGED serverVars
    /\ UNCHANGED <<batch, digest, unsent, markReq, posted>>

\* a client's POST /events while workers run; its response is not kept
Ingest(body) ==
    /\ events' = HandlePostEvents(events, body).events
    /\ UNCHANGED <<otherVars, digests, eventsById, now, uuidCount, resp, acked>>
    /\ UNCHANGED workerVars

\* time passes between two runs of the worker (cron: every 5 minutes); one
\* run is short against that
Tick ==
    /\ now < MaxClock
    /\ \A w \in Workers : pc[w] \in {"idle", "done", "exited"}
    /\ now' = now + 1
    /\ UNCHANGED <<otherVars, events, digests, eventsById, uuidCount, resp, acked>>
    /\ UNCHANGED workerVars

WorkerStep(w) ==
    \/ StartTick(w)
    \/ FetchOk(w) \/ FetchFail(w)
    \/ PersistOk(w) \/ PersistFail(w)
    \/ MarkOk(w) \/ MarkFail(w)
    \/ DeliverOk(w) \/ DeliverFail(w) \/ DeliverThrow(w)
    \/ ConfirmOk(w) \/ ConfirmFail(w) \/ ConfirmThrow(w)
    \/ RetryFetchOk(w) \/ RetryFetchFail(w)
    \/ RetrySendOk(w) \/ RetrySendFail(w) \/ RetrySendThrow(w)
    \/ RetryConfirmOk(w) \/ RetryConfirmFail(w) \/ RetryConfirmThrow(w)

Next ==
    \/ WorkerStep("w1")
    \/ \E body \in Arrivals : Ingest(body)
    \/ Tick

\* clients and the worker, one run at a time
Spec == Init /\ [][Next]_vars

\* an instance of the worker is started, once
StartOnce(w) ==
    /\ pc[w] = "idle"
    /\ StartTick(w)

WorkerStepOnce(w) ==
    \/ StartOnce(w)
    \/ FetchOk(w) \/ FetchFail(w)
    \/ PersistOk(w) \/ PersistFail(w)
    \/ MarkOk(w) \/ MarkFail(w)
    \/ DeliverOk(w) \/ DeliverFail(w) \/ DeliverThrow(w)
    \/ ConfirmOk(w) \/ ConfirmFail(w) \/ ConfirmThrow(w)
    \/ RetryFetchOk(w) \/ RetryFetchFail(w)
    \/ RetrySendOk(w) \/ RetrySendFail(w) \/ RetrySendThrow(w)
    \/ RetryConfirmOk(w) \/ RetryConfirmFail(w) \/ RetryConfirmThrow(w)

\* two instances of the worker, started once each, whose runs overlap; time
\* passes while they run
NextTwo ==
    \/ \E w \in Workers : WorkerStepOnce(w)
    \/ \E body \in Arrivals : Ingest(body)
    \/ AdvanceClock

\* clients and two runs of the worker that overlap
SpecTwo == Init /\ [][NextTwo]_vars

\* The Event API answers every request and only the sink may fail: what is
\* left of a run of main() then.
WorkerStepApiUp(w) ==
    \/ StartTick(w)
    \/ FetchOk(w)
    \/ PersistOk(w)
    \/ MarkOk(w)
    \/ DeliverOk(w) \/ DeliverFail(w) \/ DeliverThrow(w)
    \/ ConfirmOk(w)
    \/ RetryFetchOk(w)
    \/ RetrySendOk(w) \/ RetrySendFail(w) \/ RetrySendThrow(w)
    \/ RetryConfirmOk(w)

NextApiUp ==
    \/ WorkerStepApiUp("w1")
    \/ \E body \in Arrivals : Ingest(body)
    \/ Tick

NextSent ==
    \/ WorkerStepApiUp("w1")
    \/ \E body \in Arrivals : Ingest(body)
    \/ Tick
    \/ \E id \in DigestIds, body \in SentBodies : DigestSent(id, body)

\* the worker of FairSpec's steps, and a client that marks digests sent
SpecSent == Init /\ [][NextSent]_vars

\* cron keeps starting the worker and every request is answered (weak fairness
\* of the worker's steps); a sink that is asked again and again answers 2xx at
\* some time (strong fairness of the two successful deliveries).  Nothing makes
\* new events arrive.
FairSpec ==
    /\ Init
    /\ [][NextApiUp]_vars
    /\ WF_vars(WorkerStepApiUp("w1"))
    /\ SF_vars(DeliverOk("w1"))
    /\ SF_vars(RetrySendOk("w1"))

\* what is left of a run of main() when only the sink and POST
\* /digests/:id/sent may fail
WorkerStepConfirm(w) ==
    \/ StartTick(w)
    \/ FetchOk(w)
    \/ PersistOk(w)
    \/ MarkOk(w)
    \/ DeliverOk(w) \/ DeliverFail(w) \/ DeliverThrow(w)
    \/ ConfirmOk(w) \/ ConfirmFail(w) \/ ConfirmThrow(w)
    \/ RetryFetchOk(w)
    \/ RetrySendOk(w) \/ RetrySendFail(w) \/ RetrySendThrow(w)
    \/ RetryConfirmOk(w) \/ RetryConfirmFail(w) \/ RetryConfirmThrow(w)

NextConfirm ==
    \/ WorkerStepConfirm("w1")
    \/ \E body \in Arrivals : Ingest(body)
    \/ Tick

\* cron keeps starting the worker and its requests are answered (weak
\* fairness of the worker's steps); the sink and POST /digests/:id/sent, asked
\* again and again, succeed at some time (strong fairness of the four
\* successful steps).  Nothing makes new events arrive.
FairSpecConfirm ==
    /\ Init
    /\ [][NextConfirm]_vars
    /\ WF_vars(WorkerStepConfirm("w1"))
    /\ SF_vars(DeliverOk("w1"))
    /\ SF_vars(RetrySendOk("w1"))
    /\ SF_vars(ConfirmOk("w1"))
    /\ SF_vars(RetryConfirmOk("w1"))

\* the steps of a run that wait for cron or for the Event API only
EventApiStep(w) ==
    \/ StartTick(w)
    \/ FetchOk(w)
    \/ PersistOk(w)
    \/ MarkOk(w)
    \/ ConfirmOk(w)
    \/ RetryFetchOk(w)
    \/ RetryConfirmOk(w)

\* cron keeps starting the worker and the Event API answers every request
\* (weak fairness of those steps).  Nothing is assumed of the sink: the two
\* fetch(openClawUrl, ..) calls pass no signal and set no timer, so a request
\* the sink does not answer settles only if the runtime gives it up, which
\* is DeliverThrow or RetrySendThrow and which nothing in main() forces.
SilentSinkSpec ==
    /\ Init
    /\ [][NextApiUp]_vars
    /\ WF_vars(EventApiStep("w1"))

\* --------------------------------- aggregateLocationEvents, one event at a time

Places == {"home", "office"}

\* the events a batch is made of: the event at position i has the id EventIdOf(i)
BatchEvent(i) ==
    { [event_id |-> EventIdOf(i), type |-> "location", ts |-> ToISOString(t),
       payload |-> [event |-> k, place_id |-> p], processed_at |-> None] :
          t \in 0..MaxTs, k \in {"enter", "dwell", "exit"}, p \in Places }
    \cup
    { [event_id |-> EventIdOf(i), type |-> "email", ts |-> ToISOString(t),
       payload |-> [subject |-> "hello", from |-> "a@example.com"], processed_at |-> None] :
          t \in {0, MaxTs} }
    \cup
    { [event_id |-> EventIdOf(i), type |-> "todo", ts |-> ToISOString(t),
       payload |-> [task_id |-> "t1", old_status |-> "open", new_status |-> "done"],
       processed_at |-> None] : t \in {0, MaxTs} }
    \cup
    { [event_id |-> EventIdOf(i), type |-> "vital", ts |-> ToISOString(t),
       payload |-> [sub_type |-> "wake"], processed_at |-> None] : t \in {0, MaxTs} }

Batches(maxLen) ==
    UNION { {b \in [1..n -> UNION {BatchEvent(i) : i \in 1..n}] :
                \A i \in 1..n : b[i] \in BatchEvent(i)} : n \in 0..maxLen }

\* aggregateLocationEvents(events) is called: filter, sort, empty accumulator
InitAgg ==
    /\ aggInput \in Batches(MaxBatch)
    /\ aggRest = LocationEvents(aggInput)
    /\ aggAcc = AggInit
    /\ aggDigest = None
    /\ impl = "ts"
    /\ events = <<>>
    /\ digests = <<>>
    /\ eventsById = <<>>
    /\ now = 0
    /\ uuidCount = 0
    /\ resp = NoResp
    /\ pc = [w \in Workers |-> "idle"]
    /\ batch = [w \in Workers |-> <<>>]
    /\ digest = [w \in Workers |-> None]
    /\ unsent = [w \in Workers |-> <<>>]
    /\ markReq = [w \in Workers |-> None]
    /\ posted = [w \in Workers |-> <<>>]
    /\ acked = {}

\* one iteration of the for loop
AggScan ==
    /\ aggRest # <<>>
    /\ aggAcc' = AggStep(aggAcc, Head(aggRest))
    /\ aggRest' = Tail(aggRest)
    /\ UNCHANGED <<impl, aggInput, aggDigest, events, digests, eventsById, now, uuidCount, resp, acked>>
    /\ UNCHANGED workerVars

\* generateDigest(events) returns, the loop of its aggregateLocationEvents call over
AggDigest ==
    /\ aggRest = <<>>
    /\ aggDigest = None
    /\ aggDigest' = generateDigest(aggInput, DigestIdOf(1))
    /\ aggInput' = EventsAfterAggregate(aggInput)
    /\ UNCHANGED <<impl, aggRest, aggAcc, events, digests, eventsById, now, uuidCount, resp, acked>>
    /\ UNCHANGED workerVars

NextAgg == AggScan \/ AggDigest

SpecAgg == InitAgg /\ [][NextAgg]_vars

\* ------------------------------------------------------------ properties: API

PostOps == {"postEvents", "postEventsV1", "jsPostEvents"}

\* C1: a POST /events that is answered 200 with a duplicate flag reports
\* duplicate = false exactly when no row had the event_id before it, leaves
\* exactly the rows there were plus the row of its event_id, and no request
\* removes a row: of all the calls with one event_id, the first to commit is
\* the only one that reports an insert, the others report a duplicate as a 200.
C1_InsertOnce ==
    [][ /\ DOMAIN events \subseteq DOMAIN events'
        /\ DOMAIN eventsById \subseteq DOMAIN eventsById'
        /\ (resp'.op = "postEvents" /\ resp'.status = 200) =>
              /\ resp'.event_id = resp'.body[1].event_id
              /\ resp'.duplicate <=> resp'.event_id \in DOMAIN events
              /\ DOMAIN events' = DOMAIN events \cup {resp'.event_id}
              /\ resp'.duplicate => events' = events
        /\ (resp'.op = "jsPostEvents" /\ resp'.status = 200) =>
              /\ resp'.duplicate <=> resp'.body[1].event_id \in DOMAIN eventsById
              /\ DOMAIN eventsById' = DOMAIN eventsById \cup {resp'.body[1].event_id}
              /\ resp'.duplicate => eventsById' = eventsById
      ]_vars

\* a second call with an event_id was answered 200, duplicate: true, while the
\* store holds rows of other ids as well
C1_Witness ==
    /\ resp.op \in {"postEvents", "jsPostEvents"}
    /\ resp.status = 200
    /\ resp.duplicate
    /\ Cardinality(DOMAIN events \cup DOMAIN eventsById) = MaxEvents

\* C5: POST /events/process sets processed_at only where it is null: the count
\* it answers is the number of named rows that were unprocessed, a processed_at
\* that is set never changes again, rows it does not name are untouched, and
\* the same ids asked a second time give 200, processed_count 0, and the table
\* as it was.
C5_MarkProcessedOnce ==
    [][ /\ \A id \in DOMAIN events :
              events[id].processedAt # None =>
                  id \in DOMAIN events' /\ events'[id].processedAt = events[id].processedAt
        /\ (resp'.op = "process" /\ resp'.status = 200) =>
              /\ resp'.processed_count =
                    Cardinality({id \in resp'.ids \cap DOMAIN events :
                                    events[id].processedAt = None})
              /\ DOMAIN events' = DOMAIN events
              /\ \A id \in DOMAIN events \ resp'.ids : events'[id] = events[id]
              /\ \A id \in DOMAIN events \cap resp'.ids : events'[id].processedAt # None
        /\ (resp.op = "process" /\ resp.status = 200 /\ resp'.op = "process"
               /\ resp'.ids = resp.ids) =>
              /\ resp'.status = 200
              /\ resp'.processed_count = 0
              /\ events' = events
      ]_vars

\* the second call, at a later time than the first: count 0, the first time kept
C5_Witness ==
    /\ resp.op = "process"
    /\ resp.status = 200
    /\ resp.processed_count = 0
    /\ \E id \in resp.ids :
          /\ id \in DOMAIN events
          /\ events[id].processedAt # None
          /\ events[id].processedAt[1] < now

\* a body no reading of the envelope accepts: not an object, a required field
\* missing, an event_id that is no uuid, a ts that is no point in time
Malformed(body) ==
    \/ ~IsObject(body)
    \/ \E f \in {"event_id", "type", "ts", "payload"} : ~Has(body, f)
    \/ ~IsUuid(body.event_id)
    \/ body.ts.form = "junk"
    \/ ~IsObject(body.payload)

\* what the deployed route's own validation says of a body
FailsValidation(body) ==
    IF impl = "ts"
    THEN eventSchema(body) # <<>> \/ payloadSchemas(body.type, body.payload) # <<>>
    ELSE IF impl = "v1" THEN eventSchemaV1(body) # <<>>
    ELSE validateEventEnvelope(body) # <<>>

C7_IngestionFrame ==
    [][ resp'.op \in PostOps =>
            /\ \A id \in DOMAIN events : id \in DOMAIN events' /\ events'[id] = events[id]
            /\ \A id \in DOMAIN events' \ DOMAIN events : events'[id].processedAt = None
            /\ \A id \in DOMAIN eventsById :
                  id \in DOMAIN eventsById' /\ eventsById'[id] = eventsById[id]
            /\ \A id \in DOMAIN eventsById' \ DOMAIN eventsById :
                  eventsById'[id].processed_at = None
      ]_vars

\* an event_id whose row is marked processed was submitted again with another
\* payload and accepted
C7_Witness ==
    /\ resp.op = "postEvents"
    /\ resp.status = 200
    /\ resp.event_id \in DOMAIN events
    /\ events[resp.event_id].processedAt # None
    /\ events[resp.event_id].payload # resp.body[1].payload

\* --------------------------------------------------------- properties: worker

Last(seq) == seq[Len(seq)]

\* the digest ids of the requests a run has made to the sink
Attempted(w) == {posted[w][i].digest_id : i \in 1..Len(posted[w])}

\* C2: every persisted digest is marked sent at some time, when ticks keep
\* running, the Event API answers, and the sink answers 2xx to a delivery at
\* some time if it is asked again and again; no new event is needed for it.
C2_EventuallySent ==
    \A d \in DigestIds :
        (d \in DOMAIN digests) ~> (d \in DOMAIN digests /\ digests[d].sentAt # None)

\* C3: a tick whose FETCH returned no unprocessed event (so that there is no
\* digest) has, when it ends, asked the sink to deliver every digest whose
\* sent_at is null.
C3_RetryOnEveryTick ==
    \A w \in Workers :
        (pc[w] = "done" /\ batch[w] = <<>>) =>
            \A d \in DOMAIN digests : digests[d].sentAt = None => d \in Attempted(w)

\* C4: a digest whose sent_at is set has been answered 2xx by the sink to a
\* POST carrying its digest_id; the worker is about to call
\* /digests/:id/sent only for the digest its last request to the sink was about,
\* and only if that request was answered 2xx; a digest whose deliveries all
\* failed has sent_at null.
C4_SentOnlyAfterAck ==
    /\ \A d \in DOMAIN digests : digests[d].sentAt # None => d \in acked
    /\ \A w \in Workers :
          /\ pc[w] \in {"confirm", "retryConfirm"} =>
                /\ posted[w] # <<>>
                /\ Last(posted[w]).ok
                /\ Last(posted[w]).digest_id =
                      IF pc[w] = "confirm" THEN digest[w][1].digest_id
                      ELSE Head(unsent[w]).digest_id
          /\ \A i \in 1..Len(posted[w]) :
                (~posted[w][i].ok /\ posted[w][i].digest_id \notin acked) =>
                    digests[posted[w][i].digest_id].sentAt = None

\* one run delivered a digest and marked it sent, and failed to deliver
\* another, which is still unsent
C4_Witness ==
    \E i, j \in 1..Len(posted["w1"]) :
        /\ posted["w1"][i].ok
        /\ digests[posted["w1"][i].digest_id].sentAt # None
        /\ ~posted["w1"][j].ok
        /\ posted["w1"][j].digest_id \notin acked
        /\ digests[posted["w1"][j].digest_id].sentAt = None

\* C8: the digest of a batch lists the event_id of every event of the batch,
\* whatever its type, once each; the worker passes that list to
\* POST /events/process, and when that has answered every event of the batch
\* is marked processed.
C8_AllEventIds ==
    \A w \in Workers :
        digest[w] # None =>
            LET ids == digest[w][1].payload.event_ids
            IN  /\ Len(ids) = Len(batch[w])
                /\ Range(ids) = {batch[w][i].event_id : i \in 1..Len(batch[w])}
                /\ markReq[w] # None => markReq[w][1] = ids
                /\ pc[w] \in {"deliver", "confirm"} =>
                      \A i \in 1..Len(batch[w]) :
                          events[batch[w][i].event_id].processedAt # None

\* a batch of a location event and an event of another type was marked
C8_Witness ==
    /\ pc["w1"] = "deliver"
    /\ markReq["w1"] # None
    /\ Len(markReq["w1"][1]) = 2
    /\ \E i, j \in 1..Len(batch["w1"]) :
          batch["w1"][i].type = "location" /\ batch["w1"][j].type # "location"

\* C9: generateDigest gives no digest for the empty batch and one digest for
\* every other batch, with or without a location event; a run whose batch is
\* empty ends without a request to POST /digests, POST /events/process or the
\* sink, and no persisted digest is without events.
C9_NoDigestIffEmptyBatch ==
    /\ generateDigest(<<>>, DigestIdOf(1)) = None
    /\ \A w \in Workers :
          /\ digest[w] = None <=> batch[w] = <<>>
          /\ batch[w] = <<>> =>
                /\ pc[w] \in {"idle", "fetch", "done", "exited"}
                /\ markReq[w] = None
                /\ posted[w] = <<>>
    /\ \A d \in DOMAIN digests : Len(digests[d].payload.event_ids) >= 1
    /\ Cardinality(DOMAIN digests) <= uuidCount

\* a run found no unprocessed event and ended, the tables being non-empty
C9_Witness ==
    /\ pc["w1"] = "done"
    /\ batch["w1"] = <<>>
    /\ digest["w1"] = None
    /\ DOMAIN events # {}
    /\ DOMAIN digests # {}

\* ---------------------------------------------------- properties: segmentation

\* C10: the step of the scan for enter(P, t): the open segment, if there is
\* one, gets exit_at = t and duration_min = the minutes from its enter_at to t,
\* rounded; a new segment {P, t, null, null} is appended and is the open
\* segment after the step, whether or not P is the place of the segment just
\* closed; no other segment changes and the event's id is consumed.
C10_EnterStartsSegment ==
    [][ (aggRest # <<>> /\ Head(aggRest).payload.event = "enter") =>
            LET e    == Head(aggRest)
                segs == aggAcc.segments
                n    == Len(segs)
                out  == aggAcc'.segments
            IN  /\ Len(out) = n + 1
                /\ out[n + 1] = [place_id |-> e.payload.place_id, enter_at |-> e.ts,
                                 exit_at |-> None, duration_min |-> None]
                /\ aggAcc'.cur = n + 1
                /\ aggAcc'.eventIds = Append(aggAcc.eventIds, e.event_id)
                /\ \A i \in 1..n :
                      IF i = aggAcc.cur
                      THEN /\ segs[i].exit_at = None
                           /\ out[i].place_id = segs[i].place_id
                           /\ out[i].enter_at = segs[i].enter_at
                           /\ out[i].exit_at = Some(e.ts)
                           /\ out[i].duration_min # None
                           /\ GetTime(e.ts) - GetTime(segs[i].enter_at)
                                 \in {2 * out[i].duration_min[1] - 1, 2 * out[i].duration_min[1]}
                      ELSE out[i] = segs[i]
      ]_vars

\* two enters at one place, 30 seconds apart: the first segment is closed at
\* the second enter with one minute, the second is open
C10_Witness ==
    /\ Len(aggInput) >= 2
    /\ Len(aggAcc.eventIds) = 2
    /\ LocationEvents(aggInput)[1].payload.event = "enter"
    /\ LocationEvents(aggInput)[2].payload.event = "enter"
    /\ Len(aggAcc.segments) = 2
    /\ aggAcc.segments[1].place_id = aggAcc.segments[2].place_id
    /\ aggAcc.segments[1].exit_at = Some(aggAcc.segments[2].enter_at)
    /\ aggAcc.segments[1].duration_min = Some(1)
    /\ aggAcc.segments[2].exit_at = None
    /\ aggAcc.cur = 2

\* the open segment of the scan is the one currentSegment refers to
HasOpen(acc) == acc.cur # 0

\* d is the number of minutes from enterTs to exitTs, halves rounded up
IsRoundedMinutes(d, enterTs, exitTs) ==
    GetTime(exitTs) - GetTime(enterTs) \in {2 * d - 1, 2 * d}

\* C11: the step of the scan for dwell(P, t): with no open segment, or an open
\* segment at another place, the segment {P, t, null, null} is appended to the
\* segments there were and is the open segment after the step; with the open
\* segment at P the segments and the open segment are the same after the step.
\* The event's id is consumed either way.
C11_DwellStep ==
    [][ (aggRest # <<>> /\ Head(aggRest).payload.event = "dwell") =>
            LET e    == Head(aggRest)
                segs == aggAcc.segments
                n    == Len(segs)
            IN  /\ aggAcc'.eventIds = Append(aggAcc.eventIds, e.event_id)
                /\ IF ~HasOpen(aggAcc) \/ segs[aggAcc.cur].place_id # e.payload.place_id
                   THEN /\ aggAcc'.segments =
                              Append(segs, [place_id |-> e.payload.place_id, enter_at |-> e.ts,
                                            exit_at |-> None, duration_min |-> None])
                        /\ aggAcc'.cur = n + 1
                   ELSE /\ segs[aggAcc.cur].exit_at = None
                        /\ aggAcc'.segments = segs
                        /\ aggAcc'.cur = aggAcc.cur
      ]_vars

\* three dwells: the first starts a segment, the second, at the same place, is
\* absorbed, the third, at another place, starts the segment that is open now
C11_Witness ==
    /\ Len(aggAcc.eventIds) = 3
    /\ \A i \in 1..3 : LocationEvents(aggInput)[i].payload.event = "dwell"
    /\ LocationEvents(aggInput)[1].payload.place_id = LocationEvents(aggInput)[2].payload.place_id
    /\ LocationEvents(aggInput)[3].payload.place_id # LocationEvents(aggInput)[2].payload.place_id
    /\ Len(aggAcc.segments) = 2
    /\ aggAcc.segments[1].enter_at = LocationEvents(aggInput)[1].ts
    /\ aggAcc.segments[2].place_id = LocationEvents(aggInput)[3].payload.place_id
    /\ aggAcc.cur = 2

\* C12: the step of the scan for exit(P, t) with the open segment at P: that
\* segment gets exit_at = t and duration_min = the minutes from its enter_at
\* to t, rounded; no segment is appended, no other segment changes, and no
\* segment is open after the step.
C12_MatchingExitStep ==
    [][ (/\ aggRest # <<>>
         /\ Head(aggRest).payload.event = "exit"
         /\ HasOpen(aggAcc)
         /\ aggAcc.segments[aggAcc.cur].place_id = Head(aggRest).payload.place_id) =>
            LET e    == Head(aggRest)
                segs == aggAcc.segments
                out  == aggAcc'.segments
            IN  /\ aggAcc'.eventIds = Append(aggAcc.eventIds, e.event_id)
                /\ Len(out) = Len(segs)
                /\ ~HasOpen(aggAcc')
                /\ \A i \in 1..Len(segs) :
                      IF i = aggAcc.cur
                      THEN /\ out[i].place_id = segs[i].place_id
                           /\ out[i].enter_at = segs[i].enter_at
                           /\ out[i].exit_at = Some(e.ts)
                           /\ out[i].duration_min # None
                           /\ IsRoundedMinutes(out[i].duration_min[1], segs[i].enter_at, e.ts)
                      ELSE out[i] = segs[i]
      ]_vars

\* enter(P, 0), exit(P, 30 s): one segment, closed, one minute, none open
C12_Witness ==
    /\ Len(aggAcc.eventIds) = 2
    /\ LocationEvents(aggInput)[1].payload.event = "enter"
    /\ LocationEvents(aggInput)[2].payload.event = "exit"
    /\ LocationEvents(aggInput)[1].payload.place_id = LocationEvents(aggInput)[2].payload.place_id
    /\ GetTime(LocationEvents(aggInput)[2].ts) = GetTime(LocationEvents(aggInput)[1].ts) + 1
    /\ Len(aggAcc.segments) = 1
    /\ aggAcc.segments[1].exit_at = Some(LocationEvents(aggInput)[2].ts)
    /\ aggAcc.segments[1].duration_min = Some(1)
    /\ aggAcc.cur = 0

\* C13: the step of the scan for exit(P, t) with no open segment, or with the
\* open segment at another place: the one segment {P, t, t, 0} is appended,
\* every segment there was is as it was, and the open segment is the same
\* after the step as before it.
C13_UnmatchedExitStep ==
    [][ (/\ aggRest # <<>>
         /\ Head(aggRest).payload.event = "exit"
         /\ (~HasOpen(aggAcc)
               \/ aggAcc.segments[aggAcc.cur].place_id # Head(aggRest).payload.place_id)) =>
            LET e    == Head(aggRest)
                segs == aggAcc.segments
                out  == aggAcc'.segments
            IN  /\ aggAcc'.eventIds = Append(aggAcc.eventIds, e.event_id)
                /\ Len(out) = Len(segs) + 1
                /\ out[Len(out)] = [place_id |-> e.payload.place_id, enter_at |-> e.ts,
                                    exit_at |-> Some(e.ts), duration_min |-> Some(0)]
                /\ \A i \in 1..Len(segs) : out[i] = segs[i]
                /\ aggAcc'.cur = aggAcc.cur
      ]_vars

\* enter(P, t), exit(Q, t2), Q # P: the segment of P is open as before, the
\* instant segment of Q follows it
C13_Witness ==
    /\ Len(aggAcc.eventIds) = 2
    /\ LocationEvents(aggInput)[1].payload.event = "enter"
    /\ LocationEvents(aggInput)[2].payload.event = "exit"
    /\ LocationEvents(aggInput)[1].payload.place_id # LocationEvents(aggInput)[2].payload.place_id
    /\ Len(aggAcc.segments) = 2
    /\ aggAcc.cur = 1
    /\ aggAcc.segments[1].exit_at = None
    /\ aggAcc.segments[2].exit_at = Some(aggAcc.segments[2].enter_at)
    /\ aggAcc.segments[2].duration_min = Some(0)

\* C14: aggregateLocationEvents returns the segments and ids as the scan left
\* them after the last location event: a segment still open then is returned
\* with exit_at null and duration_min null; an input that is empty, or holds
\* no location event, gives no segment and no id.
C14_EndOfBatch ==
    LET r == aggregateLocationEvents(aggInput)
    IN  /\ aggRest = <<>> =>
              /\ r.segments = aggAcc.segments
              /\ r.eventIds = aggAcc.eventIds
              /\ HasOpen(aggAcc) =>
                    /\ r.segments[aggAcc.cur].exit_at = None
                    /\ r.segments[aggAcc.cur].duration_min = None
        /\ (aggInput = <<>> \/ \A i \in 1..Len(aggInput) : aggInput[i].type # "location") =>
              r = [segments |-> <<>>, eventIds |-> <<>>]

\* the scan of a batch is over with a closed segment followed by an open one
C14_Witness ==
    /\ aggRest = <<>>
    /\ aggDigest # None
    /\ HasOpen(aggAcc)
    /\ Len(aggAcc.segments) = 2
    /\ aggAcc.segments[1].exit_at # None
    /\ aggAcc.segments[2].exit_at = None

\* exit_at and duration_min are null together; a closed segment ends no
\* earlier than it starts and its duration_min is the rounded minutes between
SegmentOk(seg) ==
    /\ seg.exit_at = None <=> seg.duration_min = None
    /\ seg.exit_at # None =>
          /\ GetTime(seg.exit_at[1]) >= GetTime(seg.enter_at)
          /\ seg.duration_min[1] >= 0
          /\ IsRoundedMinutes(seg.duration_min[1], seg.enter_at, seg.exit_at[1])

\* C15: every segment aggregateLocationEvents returns, and every segment of
\* the scan on the way, has exit_at null exactly when duration_min is null,
\* and otherwise duration_min = round((exit_at - enter_at) in minutes) >= 0.
C15_SegmentInvariant ==
    /\ \A i \in 1..Len(aggAcc.segments) : SegmentOk(aggAcc.segments[i])
    /\ LET r == aggregateLocationEvents(aggInput)
       IN  \A i \in 1..Len(r.segments) : SegmentOk(r.segments[i])

\* a batch that lists the exit before the enter it follows in time: scanned in
\* the order of time, it gives one closed segment of one minute
C15_Witness ==
    /\ aggRest = <<>>
    /\ Len(aggInput) = 2
    /\ aggInput[1].type = "location" /\ aggInput[1].payload.event = "exit"
    /\ aggInput[2].type = "location" /\ aggInput[2].payload.event = "enter"
    /\ GetTime(aggInput[2].ts) + 2 = GetTime(aggInput[1].ts)
    /\ Len(aggAcc.segments) = 1
    /\ aggAcc.segments[1].exit_at = Some(aggInput[1].ts)
    /\ aggAcc.segments[1].duration_min = Some(1)

\* the positions of the batch that hold a location event
LocationIndexes(evs) == {i \in 1..Len(evs) : evs[i].type = "location"}

\* C16: the ids aggregateLocationEvents returns are the ids of the location
\* events of the batch, each once, whatever their kind and whether or not a
\* dwell was absorbed, and the id of no other event; during the scan the ids
\* consumed and the events left add up to them; the segments are those of the
\* batch with the events of other types taken out.
C16_LocationIdsOnly ==
    LET r   == aggregateLocationEvents(aggInput)
        loc == LocationIndexes(aggInput)
    IN  /\ Len(r.eventIds) = Cardinality(loc)
        /\ Range(r.eventIds) = {aggInput[i].event_id : i \in loc}
        /\ Len(aggAcc.eventIds) + Len(aggRest) = Cardinality(loc)
        /\ Range(aggAcc.eventIds) \subseteq Range(r.eventIds)
        /\ \A i \in 1..Len(aggRest) : aggRest[i].type = "location"
        /\ r.segments =
              aggregateLocationEvents(
                  SelectSeqBy(aggInput, {aggInput[i] : i \in loc})).segments

\* a batch of an event of another type, an enter and a dwell at the same
\* place: two ids, one segment
C16_Witness ==
    /\ aggRest = <<>>
    /\ Len(aggInput) = 3
    /\ Cardinality(LocationIndexes(aggInput)) = 2
    /\ \E i, j \in LocationIndexes(aggInput) :
          /\ aggInput[i].payload.event = "enter"
          /\ aggInput[j].payload.event = "dwell"
          /\ aggInput[i].payload.place_id = aggInput[j].payload.place_id
          /\ GetTime(aggInput[i].ts) < GetTime(aggInput[j].ts)
    /\ Len(aggAcc.eventIds) = 2
    /\ Len(aggAcc.segments) = 1

\* ----------------------------------------------------- properties: the message

\* a segment closed at another instant than it starts at
HasSpan(seg) == seg.exit_at # None /\ GetTime(seg.exit_at[1]) # GetTime(seg.enter_at)

\* the rendering of one segment
Rendering(seg) ==
    IF HasSpan(seg)
    THEN FormatTime(seg.enter_at) \o "-" \o FormatTime(seg.exit_at[1]) \o " " \o seg.place_id
    ELSE FormatTime(seg.enter_at) \o " " \o seg.place_id \o ArrivedSuffix

RECURSIVE RenderingsUpTo(_, _)
\* the renderings of the first k segments, k >= 1, in order, ArrowSeparator between
RenderingsUpTo(segments, k) ==
    IF k = 1 THEN Rendering(segments[1])
    ELSE RenderingsUpTo(segments, k - 1) \o ArrowSeparator \o Rendering(segments[k])

\* C17: buildDigestMessage of no segment is the no-events literal; otherwise it
\* is "[LocationDigest] " followed by the renderings of the segments in order,
\* joined by the arrow: "<enter HH:MM>-<exit HH:MM> <place_id>" for a segment
\* closed at another instant than its enter_at, "<enter HH:MM> <place_id>" and
\* the arrival suffix for a segment that is open or closed at its enter_at.
C17_MessageOfSegments ==
    /\ buildDigestMessage(<<>>) = NoEventsMessage
    /\ NoEventsMessage = "[LocationDigest] (no events)"
    /\ LET segs == aggAcc.segments
       IN  buildDigestMessage(segs) =
              IF Len(segs) = 0 THEN NoEventsMessage
              ELSE "[LocationDigest] " \o RenderingsUpTo(segs, Len(segs))
    /\ aggDigest # None =>
          LET segs == aggDigest[1].payload.segments
          IN  buildDigestMessage(segs) =
                 IF Len(segs) = 0 THEN NoEventsMessage
                 ELSE "[LocationDigest] " \o RenderingsUpTo(segs, Len(segs))

\* a segment of one minute followed by a segment closed at its own enter_at
C17_Witness ==
    /\ Len(aggAcc.segments) = 2
    /\ aggAcc.segments[2].exit_at = Some(aggAcc.segments[2].enter_at)
    /\ buildDigestMessage(aggAcc.segments)
          = "[LocationDigest] 00:00-00:01 home -> 00:01 office(arrived)"

\* the number of events of a type in a batch
NumberOfType(evs, type) == Len(SelectSeq(evs, LAMBDA e : e.type = type))

\* "<label><count>" and the count suffix
Fragment(label, count) == label \o ToString(count) \o CountSuffix

\* the fragments of the types that occur, email, todo, vital in that order,
\* ", " between them; at least one of the counts is positive
Fragments(ne, nt, nv) ==
    LET fe == Fragment(EmailLabel, ne)
        ft == Fragment(TodoLabel, nt)
        fv == Fragment(VitalLabel, nv)
    IN  IF ne > 0 /\ nt > 0 /\ nv > 0 THEN fe \o ", " \o ft \o ", " \o fv
        ELSE IF ne > 0 /\ nt > 0 THEN fe \o ", " \o ft
        ELSE IF ne > 0 /\ nv > 0 THEN fe \o ", " \o fv
        ELSE IF nt > 0 /\ nv > 0 THEN ft \o ", " \o fv
        ELSE IF ne > 0 THEN fe
        ELSE IF nt > 0 THEN ft
        ELSE fv

\* C18: the message of the digest of a batch is the location portion (the
\* message of the batch's segments) alone when the batch has no email, todo or
\* vital event; otherwise the location portion, " | ", and for each of email,
\* todo, vital that occurs, in that order, its label with the number of batch
\* events of that type and the count suffix, joined by ", ".
C18_MessageOfBatch ==
    aggDigest # None =>
        LET location == buildDigestMessage(aggregateLocationEvents(aggInput).segments)
            ne       == NumberOfType(aggInput, "email")
            nt       == NumberOfType(aggInput, "todo")
            nv       == NumberOfType(aggInput, "vital")
        IN  /\ aggDigest[1].payload.segments = aggregateLocationEvents(aggInput).segments
            /\ aggDigest[1].message =
                  IF ne + nt + nv = 0 THEN location
                  ELSE location \o " | " \o Fragments(ne, nt, nv)

\* the digest of a location event, an email and a todo
C18_Witness ==
    /\ aggDigest # None
    /\ Len(aggDigest[1].payload.event_ids) = 3
    /\ Len(aggDigest[1].payload.segments) = 1
    /\ aggDigest[1].message
          = "[LocationDigest] 00:00 home(arrived) | mail1(items), task-change1(items)"

SinkBody(id, message) ==
    [message |-> "[digest:" \o id \o "] " \o message, name |-> "EventDigest",
     wakeMode |-> "now", deliver |-> TRUE, channel |-> "last"]

\* C20: every request a run has made to the sink, first delivery or retry, is
\* about a persisted digest and has the body {message: "[digest:<id>] <message>",
\* name: "EventDigest", wakeMode: "now", deliver: true, channel: "last"} of
\* that digest's id and stored message; the stored message of a digest never
\* changes, so that every attempt for a digest carries the same body.
C20_SameBodyEveryAttempt ==
    [][ /\ \A w \in Workers : \A i \in 1..Len(posted'[w]) :
              LET r == posted'[w][i]
              IN  /\ r.digest_id \in DOMAIN digests'
                  /\ r.body = SinkBody(r.digest_id, digests'[r.digest_id].message)
        /\ \A d \in DOMAIN digests :
              d \in DOMAIN digests' /\ digests'[d].message = digests[d].message
      ]_vars

\* a run has delivered its own digest and then retried, in vain, a digest the
\* sink had answered 2xx to in an earlier run
C20_Witness ==
    /\ Len(posted["w1"]) = 2
    /\ digest["w1"] # None
    /\ posted["w1"][1].digest_id = digest["w1"][1].digest_id
    /\ posted["w1"][2].digest_id # digest["w1"][1].digest_id
    /\ ~posted["w1"][2].ok
    /\ posted["w1"][2].digest_id \in acked

\* ------------------------------------------------- properties: failure handling

\* a step of worker w in which a re-send of an unsent digest fails: the sink
\* answers non-2xx or the request itself fails
RetryDeliveryFails(w) ==
    /\ pc[w] = "retry"
    /\ Len(posted'[w]) = Len(posted[w]) + 1
    /\ ~Last(posted'[w]).ok

\* C21: in the retry section, a failed delivery of one unsent digest (non-2xx
\* answer or network error) leaves that digest's sent_at null, and the run goes
\* on to attempt the delivery of the unsent digests that are left in its list.
C21_RetryFailureDoesNotBlock ==
    [][\A w \in Workers :
          RetryDeliveryFails(w) =>
              /\ digests'[Head(unsent[w]).digest_id].sentAt = None
              /\ Tail(unsent[w]) # <<>> =>
                    pc'[w] = "retry" /\ unsent'[w] = Tail(unsent[w])]_vars

\* C22: when the delivery of the digest created in this tick fails (non-2xx
\* answer or network error), that digest's sent_at stays null and the tick makes
\* no further request to the sink.
C22_DeliverFailureEndsTick ==
    \A w \in Workers :
        (/\ digest[w] # None
         /\ posted[w] # <<>>
         /\ posted[w][1].digest_id = digest[w][1].digest_id
         /\ ~posted[w][1].ok)
        => /\ digests[digest[w][1].digest_id].sentAt = None
           /\ Len(posted[w]) = 1

\* the request of worker w that is in flight is not answered 2xx and the Event
\* API has not committed it
PersistFails(w) ==
    /\ pc[w] = "persist"
    /\ pc'[w] # "persist"
    /\ digest[w][1].digest_id \notin DOMAIN digests'

MarkFails(w) ==
    /\ pc[w] = "mark"
    /\ pc'[w] # "mark"
    /\ \E i \in 1..Len(batch[w]) : events'[batch[w][i].event_id].processedAt = None

\* C23: a failure at one step of a tick stops the later steps of that tick and
\* undoes no earlier one.  If PERSIST_DIGEST fails, no event is marked
\* processed and nothing is sent to the sink; if MARK_PROCESSED fails, the
\* persisted digest stays stored with sent_at null and nothing is sent to the
\* sink.  A run that has stopped takes no step until cron starts the next one.
C23_FailureStopsTick ==
    [][\A w \in Workers :
          /\ PersistFails(w) =>
                /\ pc'[w] = "exited"
                /\ events' = events
                /\ digests' = digests
                /\ posted'[w] = <<>>
          /\ MarkFails(w) =>
                /\ pc'[w] = "exited"
                /\ events' = events
                /\ digest[w][1].digest_id \in DOMAIN digests'
                /\ digests'[digest[w][1].digest_id] =
                      [payload   |-> digest[w][1].payload,
                       message   |-> digest[w][1].message,
                       createdAt |-> digests[digest[w][1].digest_id].createdAt,
                       sentAt    |-> None]
                /\ posted'[w] = <<>>
          /\ pc[w] = "exited" =>
                \/ pc'[w] = "exited" /\ posted'[w] = posted[w]
                \/ pc'[w] = "fetch"]_vars

\* a run stopped at PERSIST_DIGEST with its digest not stored and nothing sent,
\* after an earlier run had stopped at MARK_PROCESSED: that run's digest is
\* stored with sent_at null and its events are still unprocessed
C23_Witness ==
    /\ pc["w1"] = "exited"
    /\ digest["w1"] # None
    /\ digest["w1"][1].digest_id \notin DOMAIN digests
    /\ posted["w1"] = <<>>
    /\ \E d \in DOMAIN digests :
          /\ digests[d].sentAt = None
          /\ \A i \in 1..Len(digests[d].payload.event_ids) :
                events[digests[d].payload.event_ids[i]].processedAt = None

\* ------------------------------------------------------- properties: digest API

\* C24: POST /digests is idempotent by digest_id.  A create of an id that is
\* not stored inserts one row (payload and message of the request, created_at
\* now, sent_at null) and reports duplicate = false; a create of an id that is
\* stored reports duplicate = true and leaves the row's payload, message,
\* created_at and sent_at as they are.  No other row changes.
C24_CreateDigestOnce ==
    [][(resp'.op = "postDigests" /\ resp'.status = 200) =>
          LET id == resp'.body[1].digest_id
          IN  /\ DOMAIN digests' = DOMAIN digests \cup {id}
              /\ \A d \in DOMAIN digests : digests'[d] = digests[d]
              /\ resp'.duplicate = (id \in DOMAIN digests)
              /\ id \notin DOMAIN digests =>
                    digests'[id] = [payload   |-> resp'.body[1].payload,
                                    message   |-> resp'.body[1].message,
                                    createdAt |-> now,
                                    sentAt    |-> None]]_vars

\* a create was answered duplicate = true for a digest that is marked sent and
\* whose stored payload is not the payload of the request
C24_Witness ==
    /\ resp.op = "postDigests"
    /\ resp.status = 200
    /\ resp.duplicate
    /\ digests[resp.digest_id].sentAt # None
    /\ digests[resp.digest_id].payload # resp.body[1].payload
    /\ digests[resp.digest_id].createdAt < now

\* ---------------------------------------------------- properties: validation

\* the envelope of a body is wrong: the body is malformed, its type is none of
\* location, email, todo, vital, its ts is no ISO 8601 date-time, its
\* device_id is empty or its meta is no object
EnvelopeViolation(body) ==
    \/ Malformed(body)
    \/ body.type \notin {"location", "email", "todo", "vital"}
    \/ body.ts.form # "iso"
    \/ Has(body, "device_id") /\ body.device_id = ""
    \/ Has(body, "meta") /\ ~IsObject(body.meta)

\* C25: POST /events (the Fastify route with payload schemas) checks the
\* envelope before the payload.  A body whose envelope is wrong, an unsupported
\* type included, is answered 400 "Invalid event payload"; a body whose
\* envelope is right and whose payload violates the schema of its type is
\* answered 400 "Invalid payload for type '<type>'"; both answers list the
\* violations and the store is not written.  Any other body is answered 200.
C25_EnvelopeBeforePayload ==
    [][resp'.op = "postEvents" =>
          LET body == resp'.body[1]
          IN  IF EnvelopeViolation(body)
              THEN /\ resp'.status = 400
                   /\ resp'.message = "Invalid event payload"
                   /\ resp'.issues # <<>>
                   /\ events' = events
              ELSE IF payloadSchemas(body.type, body.payload) # <<>>
              THEN /\ resp'.status = 400
                   /\ resp'.message = "Invalid payload for type '" \o body.type \o "'"
                   /\ resp'.message # "Invalid event payload"
                   /\ resp'.issues # <<>>
                   /\ events' = events
              ELSE resp'.status = 200]_vars

\* a body with a wrong envelope (event_id) and a payload that violates the
\* schema of its supported type was answered with the envelope's label, and
\* the store holds a row
C25_Witness ==
    /\ resp.op = "postEvents"
    /\ resp.status = 400
    /\ resp.message = "Invalid event payload"
    /\ IsObject(resp.body[1])
    /\ Has(resp.body[1], "type") /\ Has(resp.body[1], "payload")
    /\ resp.body[1].type \in supportedTypes
    /\ IsObject(resp.body[1].payload)
    /\ payloadSchemas(resp.body[1].type, resp.body[1].payload) # <<>>
    /\ DOMAIN events # {}

\* ------------------------------------------------------- properties: the batch

\* the events of the store that no run has marked processed
Unprocessed == {id \in DOMAIN events : events[id].processedAt = None}

\* C26: the batch a run of the worker fetches is the unprocessed events in
\* ascending order of ts, cut to the limit of the request: it holds
\* min(limit, number of unprocessed events) events, and no unprocessed event
\* that is left out is earlier than one that is in.
C26_BatchAscendingEarliest ==
    [][\A w \in Workers :
          (pc[w] = "fetch" /\ pc'[w] \notin {"fetch", "exited"}) =>
              LET b == batch'[w]
                  ids == {b[i].event_id : i \in 1..Len(b)}
              IN  /\ ids \subseteq Unprocessed
                  /\ Len(b) = Min2(FetchLimit, Cardinality(Unprocessed))
                  /\ \A i, j \in 1..Len(b) :
                        i < j => GetTime(b[i].ts) <= GetTime(b[j].ts)
                  /\ \A id \in Unprocessed \ ids : \A i \in 1..Len(b) :
                        GetTime(b[i].ts) <= events[id].ts]_vars

\* ------------------------------------------------- properties: two instances

\* the events whose processed_at a step sets
NewlyProcessed ==
    {id \in DOMAIN events : events[id].processedAt = None /\ events'[id].processedAt # None}

\* C27: with two instances of the worker running at once over overlapping
\* batches, in any interleaving: a markProcessed call sets processed_at of
\* exactly the events of its list that were still unprocessed and returns their
\* number, and no step changes a processed_at that is set.  So each event's
\* processed_at is set by one call, and the counts the calls return add up to
\* the number of distinct events that were unprocessed.
C27_MarkProcessedInterleaved ==
    [][/\ \A id \in DOMAIN events :
             events[id].processedAt # None => events'[id].processedAt = events[id].processedAt
       /\ \A w \in Workers :
             (pc[w] = "mark" /\ pc'[w] = "deliver") =>
                 LET ids == Range(markReq'[w][1])
                 IN  /\ NewlyProcessed = {id \in ids : events[id].processedAt = None}
                     /\ HandleProcessEvents(events, ids, now).resp.processed_count
                           = Cardinality(NewlyProcessed)
                     /\ \A v \in Workers \ {w} : UNCHANGED <<pc[v], markReq[v]>>
       /\ (\A w \in Workers : ~(pc[w] = "mark" /\ pc'[w] = "deliver")) => NewlyProcessed = {}]_vars

\* both instances have called markProcessed with lists that overlap, at
\* different times: the event in both lists has the processed_at of the first
\* call, an event in the second list only that of the second call
C27_Witness ==
    /\ pc["w1"] = "deliver" /\ pc["w2"] = "deliver"
    /\ \E id1 \in Range(markReq["w1"][1]) \cap Range(markReq["w2"][1]) :
       \E id2 \in Range(markReq["w2"][1]) \ Range(markReq["w1"][1]) :
          /\ events[id1].processedAt = Some(0)
          /\ events[id2].processedAt = Some(1)

\* the events the stored digest d is about
EventsOf(d) == Range(digests[d].payload.event_ids)

\* C28: with two instances of the worker running at once, deliveries that
\* repeat the same events carry the same digest id: two digests the sink has
\* accepted under different digest ids have no event in common.
C28_DuplicatesShareDigestId ==
    \A d1, d2 \in acked :
        d1 # d2 => EventsOf(d1) \cap EventsOf(d2) = {}

\* ---------------------------------------------------- properties: termination

\* C29: every tick terminates, whatever the sink does: a run that has started
\* ends (main() returns or the process exits), because a delivery the sink
\* does not answer is given up after a timeout and counts as a failed
\* delivery.
C29_TickTerminates ==
    \A w \in Workers :
        (pc[w] \notin {"idle", "done", "exited"}) ~> (pc[w] \in {"done", "exited"})

\* ------------------------------------------------ properties: authentication

\* the request carries the header Authorization: Bearer <configured token>
Authorized(req) ==
    /\ req.authorization # None
    /\ HeaderString(req.authorization[1]) = "Bearer " \o EVENT_API_TOKEN

StoresUnchanged ==
    /\ events' = events
    /\ digests' = digests
    /\ eventsById' = eventsById

\* C30 as stated: every request other than one to /healthz that lacks the
\* header Authorization: Bearer <configured token> is answered 401 and changes
\* no stored event or digest; GET /healthz is answered without a token.
C30_UnauthorizedIs401 ==
    [][resp'.request # None =>
          LET req == resp'.request[1]
          IN  /\ (req.url # "/healthz" /\ ~Authorized(req)) =>
                    resp'.status = 401 /\ StoresUnchanged
              /\ (req.url = "/healthz" /\ req.method = "GET") => resp'.status = 200]_vars

\* the plain http handler serves GET /healthz and POST /events only
ServedByHandler(req) ==
    \/ req.method = "GET" /\ req.url = "/healthz"
    \/ req.method = "POST" /\ req.url = "/events"

\* C30, amended: a request other than one to /healthz that lacks the header
\* Authorization: Bearer <configured token> changes no stored event or digest.
\* The Fastify app answers it 401; the plain http handler answers it 401 if
\* it is a POST /events and 404 otherwise, as it answers any request it does
\* not serve.  GET /healthz is answered 200 without a token.
C30_UnauthorizedChangesNothing ==
    [][resp'.request # None =>
          LET req == resp'.request[1]
          IN  /\ (req.url # "/healthz" /\ ~Authorized(req)) =>
                    /\ StoresUnchanged
                    /\ resp'.status =
                          IF impl = "js" /\ ~ServedByHandler(req) THEN 404 ELSE 401
              /\ (req.url = "/healthz" /\ req.method = "GET") => resp'.status = 200]_vars

\* a POST /events with a Bearer token that is not the configured one was
\* answered 401 while the store holds a row
C30_Witness ==
    /\ resp.request # None
    /\ resp.request[1].method = "POST"
    /\ resp.request[1].url = "/events"
    /\ resp.request[1].authorization = Some(Header("Bearer ", "wrong-token"))
    /\ resp.request[1].body \in Arrivals
    /\ resp.status = 401
    /\ DOMAIN events \cup DOMAIN eventsById # {}

\* ------------------------------------------- properties: events and digests

\* the stored digests whose payload.event_ids lists the event id
DigestsOf(id) == {d \in DOMAIN digests : id \in EventsOf(d)}

\* C31: an event whose processed_at is set is listed in payload.event_ids of
\* at least one stored digest: the worker marks events processed only after
\* the digest that folds them is stored.
C31_ProcessedIsInDigest ==
    \A id \in DOMAIN events :
        events[id].processedAt # None => DigestsOf(id) # {}

\* a run has marked its events processed and ended without delivering: the
\* events are processed and the digest that lists them is stored, unsent
C31_Witness ==
    /\ pc["w1"] = "exited"
    /\ \E id \in DOMAIN events :
          /\ events[id].processedAt # None
          /\ \E d \in DigestsOf(id) : digests[d].sentAt = None
    /\ \E id \in DOMAIN events : events[id].processedAt = None

\* C32: with one instance of the worker, no event id is listed in
\* payload.event_ids of two different stored digests, whatever step a tick
\* stops at.
C32_EventInOneDigest ==
    \A d1, d2 \in DOMAIN digests :
        d1 # d2 => EventsOf(d1) \cap EventsOf(d2) = {}

\* C33: within one tick the sink receives at most one request per digest id.
\* The digest created in the tick is posted once, in DELIVER, and is skipped
\* by the retry loop whether or not its delivery succeeded; every other
\* unsent digest is posted at most once.
C33_OnePostPerDigest ==
    \A w \in Workers :
        /\ \A i, j \in 1..Len(posted[w]) :
              i # j => posted[w][i].digest_id # posted[w][j].digest_id
        /\ \A i \in 1..Len(posted[w]) :
              (digest[w] # None /\ posted[w][i].digest_id = digest[w][1].digest_id) => i = 1

\* a tick has ended after its own delivery failed and its retry loop ran: its
\* digest is still unsent and was posted once, another digest was posted too
C33_Witness ==
    /\ pc["w1"] = "done"
    /\ Len(posted["w1"]) = 2
    /\ posted["w1"][1].digest_id = digest["w1"][1].digest_id
    /\ ~posted["w1"][1].ok
    /\ digests[digest["w1"][1].digest_id].sentAt = None
    /\ posted["w1"][2].digest_id # digest["w1"][1].digest_id

\* the tick of worker w has ended with its digest d accepted by the sink and
\* POST /digests/:id/sent not committed
Unconfirmed(w, d) ==
    /\ pc[w] \in {"done", "exited"}
    /\ digest[w] # None
    /\ digest[w][1].digest_id = d
    /\ d \in acked
    /\ d \in DOMAIN digests
    /\ digests[d].sentAt = None

\* a later tick of worker w has posted digest d to the sink, under the id d
Redelivered(w, d) ==
    /\ digest[w] # None
    /\ digest[w][1].digest_id # d
    /\ \E i \in 1..Len(posted[w]) :
          /\ posted[w][i].digest_id = d
          /\ posted[w][i].body = SinkBody(d, digests[d].message)

\* C34: a digest the sink accepted and whose CONFIRM_SENT request did not
\* commit keeps sent_at null and stays stored, so it is in the unsent list, and
\* a later tick delivers it again with the same digest id: the worker never
\* drops a digest it could not confirm.
C34_UnconfirmedIsRedelivered ==
    \A d \in DigestIds :
        Unconfirmed("w1", d) ~> Redelivered("w1", d)

\* ------------------------------------------------ properties: order of the batch

\* the batches that hold the events of evs, in any order
Reorderings(evs) ==
    {[i \in 1..Len(evs) |-> evs[f[i]]] : f \in Permutations(1..Len(evs))}

\* the location events of evs have pairwise distinct ts
DistinctLocationTs(evs) ==
    \A i, j \in LocationIndexes(evs) :
        i # j => GetTime(evs[i].ts) # GetTime(evs[j].ts)

\* C35: aggregateLocationEvents does not depend on the order of its input and
\* does not modify it.  For a batch whose location events have pairwise
\* distinct ts, every reordering of the batch yields the same segments and
\* the same event ids in the same order; and the batch is in the order it had
\* after generateDigest has called aggregateLocationEvents on it.
C35_OrderIndependent ==
    [][/\ aggInput' = aggInput
       /\ DistinctLocationTs(aggInput) =>
             \A p \in Reorderings(aggInput) :
                 aggregateLocationEvents(p) = aggregateLocationEvents(aggInput)]_vars

\* generateDigest has returned for a batch in descending order of ts, as GET
\* /events answers: an exit before the enter it closes, and the one segment
\* is closed
C35_Witness ==
    /\ aggDigest # None
    /\ Len(aggInput) = 2
    /\ aggInput[1].type = "location" /\ aggInput[2].type = "location"
    /\ GetTime(aggInput[1].ts) > GetTime(aggInput[2].ts)
    /\ aggInput[1].payload.event = "exit"
    /\ aggInput[2].payload.event = "enter"
    /\ Len(aggDigest[1].payload.segments) = 1
    /\ aggDigest[1].payload.segments[1].exit_at = Some(aggInput[1].ts)

\* ---------------------------------------------- properties: the open segment

\* the positions of the segments that are open
OpenSegments(segments) == {i \in 1..Len(segments) : segments[i].exit_at = None}

\* the segment is the record of an exit that matched no open segment
IsInstant(seg) == seg.exit_at = Some(seg.enter_at)

\* C36: in the output of aggregateLocationEvents, for every batch, at most one
\* segment has exit_at null, and if there is one it is the segment started
\* last: only records of unmatched exits come after it.
C36_AtMostOneOpen ==
    LET segments == aggregateLocationEvents(aggInput).segments
    IN  /\ Cardinality(OpenSegments(segments)) <= 1
        /\ \A i \in OpenSegments(segments) :
              \A j \in (i + 1)..Len(segments) : IsInstant(segments[j])

\* ------------------------------------------------ properties: sent stays sent

\* the digest ids GET /digests?unsent_only=true may answer with
UnsentIds(table) ==
    UNION {{l[i].digest_id : i \in 1..Len(l)} :
              l \in ListDigests(table, TRUE, DigestListLimit)}

\* C37 as stated: once a digest's sent_at is non-null, no step changes it, a
\* later mark-sent for the same digest_id included.
C37_SentAtNeverChanges ==
    [][\A d \in DOMAIN digests :
          digests[d].sentAt # None =>
              d \in DOMAIN digests' /\ digests'[d].sentAt = digests[d].sentAt]_vars

\* C37: once a digest's sent_at is non-null it never becomes null again, a
\* later mark-sent for the same digest_id included (which may write another
\* time), and the digest is never again in the unsent list.
C37_SentStaysSent ==
    [][\A d \in DOMAIN digests :
          digests[d].sentAt # None =>
              /\ d \in DOMAIN digests'
              /\ digests'[d].sentAt # None
              /\ d \notin UnsentIds(digests')]_vars

\* a client's mark-sent was answered 200 with one time and the digest now
\* carries another: a later mark-sent for the same digest_id wrote it
C37_Witness ==
    /\ resp.op = "markSent"
    /\ resp.status = 200
    /\ resp.digest_id \in DOMAIN digests
    /\ digests[resp.digest_id].sentAt # None
    /\ resp.sent_at # Some(ToISOString(digests[resp.digest_id].sentAt[1]))

====
